---- MODULE Spec2Model ----
(***************************************************************************)
(* Model of the VPN subscription control plane (romanmihailow/vpn_service). *)
(*                                                                         *)
(* Spec       : the subscription lifecycle.  Handlers of the webhook, bot   *)
(*              and legacy processes run statement by statement against    *)
(*              one database (vpn_subscriptions), one WireGuard peer set    *)
(*              and the IP-allocation advisory lock.                        *)
(* SpecAlloc  : the webhook and legacy handlers with two of them in        *)
(*              progress at once (address allocation).                      *)
(* SpecPoints : the points ledger (add_points, pay_subscription_with_points)*)
(*              as READ COMMITTED transactions with row locks.              *)
(* SpecRef    : the referral graph and apply_referral_rewards_for_          *)
(*              subscription.                                               *)
(***************************************************************************)
EXTENDS Integers, Sequences, FiniteSets, TLC

(* ------------------------------ bounds -------------------------------- *)
NumUsers == 2
NumPayments == 2
MaxSubs == 2
MaxTicks == 1
MaxExtends == 1
MaxBusy == 1
NumClientIps == 2
NumTx == 2
MaxLedger == 3
PointsCost == 1
MaxRuns == 2
NumConfKeys == 2
MaxConfLen == 20
NumRefunds == 1
PromoDays == 7
MaxPromoUses == 2
MaxPerUser == 2
MaxNoticeDays == 3
MaxReminders == 3
MaxOrphans == 1
MaxFileLen == 14
MaxAttempts == 2

(* ------------------------- program constants -------------------------- *)
\* yookassa_webhook_runner.py TARIFF_DAYS["1m"]; time is counted in days
TariffDays1m == 30
TariffDays3m == 90
\* wg.py WG_SERVER_IP = 10.8.0.1: host number 1 of the pool is the server
ServerHost == 1
MaxLevels == 5
\* the precision of Python's default Decimal context
DecimalPrec == 28
\* aiohttp's status of web.Response(text = ...)
HttpOk == 200
\* tg_bot_runner.py try_give_referral_trial_7d: timedelta(days=7)
TrialDays == 7

Users == 1..NumUsers
Procs == {"web", "bot", "api"}

\* Host numbers of 10.8.0.0/16 in ascending order: 1 is the server, the
\* clients get FirstClientHost..LastClientHost.
FirstClientHost == ServerHost + 1
LastClientHost == ServerHost + NumClientIps
PoolHosts == ServerHost..LastClientHost

\* A provider payment id: <<payer, n>>.  The provider's record of a payment
\* (its metadata and created_at) is fixed by the id.
NoId == <<0, 0>>
\* User u has made NumPayments + 1 - u payments.
PaymentIds ==
    {pid \in Users \X (1..NumPayments) : pid[1] + pid[2] <= NumPayments + 1}
PayerOf(pid) == pid[1]
CreatedAt(pid) == pid[2]

\* last_event_name values: a name and, for provider events, the payment id.
Ev(name, id) == [name |-> name, id |-> id]
EvPlain(name) == Ev(name, NoId)

VARIABLES
    now,        \* NOW() of the database, in days
    subs,       \* vpn_subscriptions: row id = index
    peers,      \* public keys in the running WireGuard interface
    ipLock,     \* holder of the pg advisory lock: a process, "free" or "leaked"
    proc,       \* per process: the handler in progress and its locals
    slots,      \* how many handlers may be in progress at the same time
    prev,       \* the delivery that returned last, if it created a row or was
                \* ignored as processed and nothing has run since
    configs,    \* public keys whose client config was sent to the user
    balance,    \* user_points: <<balance>>, or NoRow when the user has no row
    ledger,     \* user_points_transactions
    referrals,  \* referrals: referred -> referrer, 0 = none
    refCfg,     \* tariffs, referral_levels and user_profiles, as far as the
                \* referral rewards read them
    tx,         \* SpecPoints, SpecPromo: the transactions in progress
    rowLock,    \* SpecPoints: row lock on user_points
    refRun,     \* SpecRef: record of the last rewards run
    conf,       \* SpecConf: the lines of /etc/wireguard/wg0.conf
    confLast,   \* SpecConf: the last call on the file and the lines before it
    rowCap,     \* how many rows vpn_subscriptions may hold in this model
    provider,   \* the payment provider's record of each payment: its tariff
    promo,      \* SpecPromo: the promo_codes row of the code and its row lock
    usages,     \* SpecPromo: promo_code_usages rows of the code, per user
    notes,      \* subscription_notifications: the markers of reminders sent
    notify,     \* SpecNotify: the reminder worker's position and locals
    outbox,     \* SpecNotify: the reminders delivered to users, in order
    env,        \* the crypto webhook's environment: payment key, check switches
    cfgio,      \* SpecFile: the holder of the flock on the config lock file
                \* and, per process, the call on the config file in progress
    codes,      \* referral_codes: rows of code, owner and is_active
    unlinked    \* promo_code_usages, per user: rows with subscription_id NULL

vars ==
    <<now, subs, peers, ipLock, proc, slots, prev, configs, balance, ledger,
      referrals, refCfg, tx, rowLock, refRun, conf, confLast, rowCap,
      provider, promo, usages, notes, notify, outbox, env, cfgio, codes,
      unlinked>>

(* ------------------------- database queries --------------------------- *)
Ids == DOMAIN subs

\* The predicate "active = TRUE AND expires_at > NOW()" of the queries below.
ActiveNow(r) == r.active /\ r.expires > now

ActiveIdsOf(tg) == {i \in Ids : subs[i].tg = tg /\ ActiveNow(subs[i])}

\* ORDER BY expires_at DESC, id DESC
First(S) ==
    CHOOSE i \in S : \A j \in S :
        \/ subs[i].expires > subs[j].expires
        \/ subs[i].expires = subs[j].expires /\ i >= j

RECURSIVE OrderDesc(_)
OrderDesc(S) ==
    IF S = {} THEN <<>> ELSE <<First(S)>> \o OrderDesc(S \ {First(S)})

get_active_subscriptions_for_telegram(tg) == OrderDesc(ActiveIdsOf(tg))

\* A check that finds every address free.
IpNeverUsed(ip) == FALSE

is_vpn_ip_used(ip) == \E i \in Ids : subs[i].ip = ip /\ ActiveNow(subs[i])

\* A gate that never finds the event.
GateAlwaysOpen(ev) == FALSE

subscription_exists_by_event(ev) == \E i \in Ids : subs[i].ev = ev

get_expired_active_subscriptions ==
    {i \in Ids : subs[i].active /\ subs[i].expires <= now}

\* UPDATE ... SET expires_at, last_event_name WHERE id: no other condition.
\* An update that leaves last_event_name as it was.
UpdateExpirationOnly(id, exp, ev) == [subs EXCEPT ![id].expires = exp]

update_subscription_expiration(id, exp, ev) ==
    [subs EXCEPT ![id].expires = exp, ![id].ev = ev]

\* UPDATE ... SET active = FALSE, last_event_name WHERE the row is active;
\* a row that is already inactive is left alone.
deactivate_subscription_by_id(id, ev) ==
    IF subs[id].active
    THEN [subs EXCEPT ![id].active = FALSE, ![id].ev = ev]
    ELSE subs

\* An activation that changes no row.
ActivateNothing(id, ev) == subs

\* The mirror image: only an inactive row is switched on.  Neither the
\* address nor the expiry of the row is looked at.
activate_subscription_by_id(id, ev) ==
    IF ~subs[id].active
    THEN [subs EXCEPT ![id].active = TRUE, ![id].ev = ev]
    ELSE subs

\* INSERT ... active = TRUE.  `origin` is not a column: it remembers the event
\* the row was inserted for.
insert_subscription(tg, channel, don, ip, key, exp, ev) ==
    Append(subs, [tg |-> tg, channel |-> channel, don |-> don, ip |-> ip,
                  key |-> key, expires |-> exp, active |-> TRUE, ev |-> ev,
                  origin |-> ev])

(* ----------------------- provider API responses ----------------------- *)
NoApi ==
    [status |-> "none", paid |-> FALSE, currency |-> "none", refunded |-> 0,
     tg |-> 0, tariff |-> "none"]

\* What GET /payments/<id> can answer for a payment: the metadata are the
\* provider's record of the payment, the rest depends on the payment's fate.
ApiResponses(pid) ==
    [status : {"succeeded", "pending"}, paid : BOOLEAN,
     currency : {"RUB", "USD"}, refunded : {0, 1},
     tg : {PayerOf(pid)}, tariff : {provider[pid]}]

\* A webhook body is whatever the sender put in it.
Webhooks == [pid : PaymentIds, tg : Users, tariff : {"1m", "3m"}]

TARIFF_DAYS(code) == IF code = "1m" THEN TariffDays1m ELSE TariffDays3m

\* The checks without the one on refunded_amount.
CardVerdictIgnoringRefund(wh, api) ==
    IF api = NoApi THEN "cannot_verify"
    ELSE IF api.status # "succeeded" \/ ~api.paid THEN "api_not_succeeded"
    ELSE IF api.currency # "RUB" THEN "wrong_currency"
    ELSE IF api.tg # wh.tg \/ api.tariff # wh.tariff THEN "metadata_mismatch"
    ELSE "verified"

\* The checks of the card handler on the API payment, in the code's order.
CardVerdict(wh, api) ==
    IF api = NoApi THEN "cannot_verify"
    ELSE IF api.status # "succeeded" \/ ~api.paid THEN "api_not_succeeded"
    ELSE IF api.currency # "RUB" THEN "wrong_currency"
    ELSE IF api.refunded > 0 THEN "payment_refunded"
    ELSE IF api.tg # wh.tg \/ api.tariff # wh.tariff THEN "metadata_mismatch"
    ELSE "verified"

\* The address Heleket sends its webhooks from, and some other address.
TrustedIp == "31.133.220.8"
OtherIp == "203.0.113.9"

\* The sign field of a webhook body: md5(base64(json_without_sign) + key),
\* a hash that tells apart different bodies and different keys.  NoSign: the
\* body has no sign field.
Sign(data, key) == <<data, key>>
NoSign == <<>>

\* A request: its peer address, its X-Real-IP header ("" when absent), the
\* addresses of its X-Forwarded-For header and the sign field of its body.
NoReq == [remote |-> "", realip |-> "", fwd |-> <<>>, sign |-> NoSign]

\* HELEKET_API_PAYMENT_KEY is set (key 1; 0 is "not set") and neither
\* HELEKET_WEBHOOK_DISABLE_IP_CHECK nor ..._DISABLE_SIGNATURE_CHECK is "1".
DefaultEnv == [key |-> 1, noIpCheck |-> FALSE, noSigCheck |-> FALSE]

(* --------------------------- handler state ---------------------------- *)
\* pc      : the statement the handler is at
\* kind    : which handler runs
\* tg, id  : the user and the payment the handler works for
\* api     : the API payment the handler verified
\* todo    : rows still to deactivate (deactivate_existing_active_...)
\* target  : the row picked for extension or (re)activation
\* exp     : the expiry the handler computed
\* old     : old_expires_at, the expiry the handler read from the row
\* key, ip : the key pair and address of the peer being provisioned
\* pay     : refund_payment_id, the payment a refund is for
\* amount  : refund_amount
\* send    : send_config, the keys are new and the config is to be sent
\* mutated : the handler has changed a row of vpn_subscriptions
\* solo    : no other handler ran while this one did
\* after   : result of the same event's previous delivery, when that
\*           delivery was the last thing that ran
\* clean   : the user had no row when the first of these deliveries began
\* tariff  : the tariff code of the webhook
\* res     : the handler's outcome
\* req     : the request of a crypto webhook
\* gate    : the event name the handler asked subscription_exists_by_event
\*           about
IdleRec ==
    [pc |-> "idle", kind |-> "none", tg |-> 0, id |-> NoId, api |-> NoApi,
     todo |-> <<>>, target |-> 0, exp |-> 0, old |-> 0, key |-> 0,
     ip |-> 0, pay |-> NoId, amount |-> 0, send |-> FALSE,
     mutated |-> FALSE, solo |-> FALSE, after |-> "none", clean |-> FALSE,
     tariff |-> "none", res |-> "none", req |-> NoReq,
     gate |-> EvPlain("none")]

NoPrev == [kind |-> "none", id |-> NoId, res |-> "none", clean |-> FALSE]

Busy(p) == proc[p].pc # "idle"
OthersIdle(p) == \A q \in Procs \ {p} : ~Busy(q)

\* Days are counted up to this horizon; rows may be extended up to it.  A
\* payment for three months moves it by as much.
HorizonDays ==
    (MaxTicks + MaxExtends) * TariffDays1m
        + (IF \E pid \in PaymentIds : provider[pid] = "3m"
           THEN TariffDays3m ELSE 0)

RoomForRow(p) ==
    Len(subs) + Cardinality({q \in Procs \ {p} : Busy(q)}) < rowCap
RoomForDays(tg, days) ==
    \A i \in Ids : subs[i].tg = tg => subs[i].expires + days <= HorizonDays

\* A handler starts: it is alone if every other process is idle, and every
\* handler already running is no longer alone.
Start(p, rec) ==
    /\ ~Busy(p)
    /\ Cardinality({q \in Procs : Busy(q)}) < slots
    /\ LET cont == OthersIdle(p) /\ prev.kind = rec.kind /\ prev.id = rec.id
       IN  /\ proc' = [q \in Procs |->
                        IF q = p
                        THEN [rec EXCEPT
                                 !.solo = OthersIdle(p),
                                 !.after = IF cont THEN prev.res ELSE "none",
                                 !.clean = IF cont THEN prev.clean
                                           ELSE \A i \in Ids :
                                                    subs[i].tg # rec.tg]
                        ELSE IF Busy(q) THEN [proc[q] EXCEPT !.solo = FALSE]
                        ELSE proc[q]]
           /\ prev' = NoPrev

Goto(p, rec) == proc' = [proc EXCEPT ![p] = rec]
Finish(p, res) == Goto(p, [proc[p] EXCEPT !.pc = "done", !.res = res])

\* The handler returns its response.
Return(p) ==
    /\ proc[p].pc = "done"
    /\ prev' = IF /\ proc[p].solo
                  /\ proc[p].res \in {"created", "already_processed"}
               THEN [kind |-> proc[p].kind, id |-> proc[p].id,
                     res |-> proc[p].res, clean |-> proc[p].clean]
               ELSE NoPrev
    /\ Goto(p, IdleRec)
    /\ UNCHANGED <<now, subs, peers, ipLock, slots, configs, balance, ledger,
                   referrals, refCfg, tx, rowLock, refRun, conf, confLast,
                   rowCap, provider, promo, usages, notes, notify, outbox,
                   env, cfgio, codes, unlinked>>

\* The HTTP status of the response a webhook handler returns with result
\* res: every return of handle_yookassa_webhook and handle_heleket_webhook is
\* web.Response(text = ...) without a status argument.
HttpStatus(res) == HttpOk

(* ------------- channel, event and reason of each handler -------------- *)
ChannelOf(kind) ==
    CASE kind = "card" -> "YooKassa"
      [] kind = "crypto" -> "Heleket"
      [] kind = "donation" -> "Tribute donation"
      [] kind = "points" -> "Points balance"
      [] kind = "admin_add" -> "Admin manual"
      [] kind = "trial" -> "Referral trial"
      [] kind = "promo" -> "Promo code"

EventOf(kind, id) ==
    CASE kind = "card" -> Ev("yookassa_payment_succeeded", id)
      [] kind = "crypto" -> Ev("heleket_payment_paid", id)
      [] kind = "refund" -> Ev("yookassa_refund_succeeded", id)
      [] kind = "donation" -> EvPlain("new_donation")
      [] kind = "admin_activate" -> EvPlain("admin_activate")
      [] kind = "points" -> EvPlain("points_payment")
      [] kind = "admin_add" -> EvPlain("admin_manual_add")
      [] kind = "trial" -> EvPlain("referral_free_trial_7d")
      [] kind = "promo" -> EvPlain("promo_new_subscription")

ReasonOf(kind) ==
    CASE kind = "card" -> EvPlain("auto_replace_yookassa")
      [] kind = "crypto" -> EvPlain("auto_replace_heleket")
      [] kind = "admin_activate" -> EvPlain("auto_replace_admin_activate")
      [] kind = "admin_deactivate" -> EvPlain("admin_deactivate")
      [] kind = "sweep" -> EvPlain("auto_expire")
      [] kind = "points" -> EvPlain("auto_replace_points_payment")
      [] kind = "admin_add" -> EvPlain("auto_replace_manual")
      [] kind = "trial" -> EvPlain("auto_replace_referral_trial_7d")
      [] kind = "promo" -> EvPlain("auto_replace_promo_new_sub")

(* ---------- deactivate_existing_active_subscriptions (shared) --------- *)
\* The sweeper and /admin_deactivate remove the peer only of a row they
\* deactivated themselves; deactivate_existing_active_subscriptions removes
\* the peer of every row it listed.
ChecksDeactivated(kind) == kind \in {"sweep", "admin_deactivate"}

\* The handler's state once the rows in `rest` are all that is left to
\* deactivate.
Advance(r, rest) ==
    IF rest # <<>> THEN [r EXCEPT !.todo = rest, !.pc = "deact_db"]
    ELSE IF r.kind = "admin_activate"
    THEN [r EXCEPT !.todo = rest, !.pc = "activate"]
    ELSE IF ChecksDeactivated(r.kind)
    THEN [r EXCEPT !.todo = rest, !.pc = "done",
                   !.res = IF r.mutated THEN "deactivated" ELSE "nothing"]
    ELSE IF r.kind \in {"points", "promo"} /\ r.target # 0
    THEN [r EXCEPT !.todo = rest, !.pc = "addpeer"]
    ELSE [r EXCEPT !.todo = rest, !.pc = "lock"]

\* active_subs = db.get_active_subscriptions_for_telegram(...)
DeactList(p) ==
    /\ proc[p].pc = "deact_list"
    /\ Goto(p, Advance(proc[p],
                       get_active_subscriptions_for_telegram(proc[p].tg)))
    /\ UNCHANGED <<now, subs, peers, ipLock, slots, prev, configs, balance,
                   ledger, referrals, refCfg, tx, rowLock, refRun, conf,
                   confLast, rowCap, provider, promo, usages, notes, notify,
                   outbox, env, cfgio, codes, unlinked>>

\* db.deactivate_subscription_by_id(sub_id, event_name = reason)
DeactDb(p) ==
    /\ proc[p].pc = "deact_db"
    /\ LET r == proc[p]
           id == Head(r.todo)
           r2 == [r EXCEPT !.mutated = @ \/ subs[id].active]
       IN  /\ subs' = deactivate_subscription_by_id(id, ReasonOf(r.kind))
           /\ IF ChecksDeactivated(r.kind) /\ ~subs[id].active
              THEN Goto(p, Advance(r2, Tail(r.todo)))
              ELSE Goto(p, [r2 EXCEPT !.pc = "deact_wg"])
    /\ UNCHANGED <<now, peers, ipLock, slots, prev, configs, balance, ledger,
                   referrals, refCfg, tx, rowLock, refRun, conf, confLast,
                   rowCap, provider, promo, usages, notes, notify, outbox,
                   env, cfgio, codes, unlinked>>

\* wg.remove_peer(pub_key): an interface that is down raises, and the
\* exception is logged and dropped.
DeactWg(p, up) ==
    /\ proc[p].pc = "deact_wg"
    /\ peers' = IF up THEN peers \ {subs[Head(proc[p].todo)].key} ELSE peers
    /\ Goto(p, Advance(proc[p], Tail(proc[p].todo)))
    /\ UNCHANGED <<now, subs, ipLock, slots, prev, configs, balance, ledger,
                   referrals, refCfg, tx, rowLock, refRun, conf, confLast,
                   rowCap, provider, promo, usages, notes, notify, outbox,
                   env, cfgio, codes, unlinked>>

(* ------------------- fresh provisioning (shared) ---------------------- *)
\* wg.generate_keypair(), then generate_client_ip() takes the advisory lock
\* (pg_advisory_lock blocks until the lock is free).
\* A key pair nobody has: the lowest number not yet in a row, in the
\* interface or in a handler's hands.
KeysInUse ==
    {subs[i].key : i \in Ids} \cup peers \cup {proc[q].key : q \in Procs}

FreshKey == CHOOSE k \in 1..(Cardinality(KeysInUse) + 1) : k \notin KeysInUse

\* The same step without the advisory lock.
AcquireNothing(p) ==
    /\ proc[p].pc = "lock"
    /\ Goto(p, [proc[p] EXCEPT !.pc = "scan", !.key = FreshKey,
                               !.ip = FirstClientHost])
    /\ UNCHANGED <<now, subs, peers, ipLock, slots, prev, configs, balance,
                   ledger, referrals, refCfg, tx, rowLock, refRun, conf,
                   confLast, rowCap, provider, promo, usages, notes, notify,
                   outbox, env, cfgio, codes, unlinked>>

AcquireIpLock(p) ==
    /\ proc[p].pc = "lock"
    /\ ipLock = "free"
    /\ ipLock' = p
    /\ Goto(p, [proc[p] EXCEPT !.pc = "scan", !.key = FreshKey,
                               !.ip = FirstClientHost])
    /\ UNCHANGED <<now, subs, peers, slots, prev, configs, balance, ledger,
                   referrals, refCfg, tx, rowLock, refRun, conf, confLast,
                   rowCap, provider, promo, usages, notes, notify, outbox,
                   env, cfgio, codes, unlinked>>

\* One turn of the loop over network.hosts(): the candidate is returned if
\* is_vpn_ip_used says no; running out of hosts releases the lock and raises.
ScanIp(p) ==
    /\ proc[p].pc = "scan"
    /\ IF proc[p].ip > LastClientHost
       THEN /\ ipLock' = "free"
            /\ Finish(p, "wg_gen_error")
       ELSE /\ ipLock' = ipLock
            /\ IF is_vpn_ip_used(proc[p].ip)
               THEN Goto(p, [proc[p] EXCEPT !.ip = @ + 1])
               ELSE Goto(p, [proc[p] EXCEPT !.pc = "addpeer"])
    /\ UNCHANGED <<now, subs, peers, slots, prev, configs, balance, ledger,
                   referrals, refCfg, tx, rowLock, refRun, conf, confLast,
                   rowCap, provider, promo, usages, notes, notify, outbox,
                   env, cfgio, codes, unlinked>>

\* release_ip_allocation_lock(): a process that does not hold the lock
\* releases nothing.
Released(p) == IF ipLock = p THEN "free" ELSE ipLock

\* The same call going on to the INSERT whatever `wg` answered.
AddPeerIgnoringFailure(p, up) ==
    /\ proc[p].pc = "addpeer"
    /\ ipLock' = ipLock
    /\ peers' = IF up THEN peers \cup {proc[p].key} ELSE peers
    /\ Goto(p, [proc[p] EXCEPT !.pc = "insert"])
    /\ UNCHANGED <<now, subs, slots, prev, configs, balance, ledger,
                   referrals, refCfg, tx, rowLock, refRun, conf, confLast,
                   rowCap, provider, promo, usages, notes, notify, outbox,
                   env, cfgio, codes, unlinked>>

\* wg.add_peer: the probe (ensure_wg_up) raises with the lock still held,
\* and the handler returns, so nobody is left to release it; a failing
\* `wg set` releases the lock and raises.
AddPeer(p, up) ==
    /\ proc[p].pc = "addpeer"
    /\ IF ~up
       THEN /\ ipLock' = IF ipLock = p THEN "leaked" ELSE ipLock
            /\ peers' = peers
            /\ Finish(p, "wg_add_error")
       ELSE /\ ipLock' = ipLock
            /\ peers' = peers \cup {proc[p].key}
            /\ Goto(p, [proc[p] EXCEPT
                           !.pc = IF proc[p].kind = "admin_activate"
                                  THEN "done" ELSE "insert",
                           !.res = IF proc[p].kind = "admin_activate"
                                   THEN "activated" ELSE @])
    /\ UNCHANGED <<now, subs, slots, prev, configs, balance, ledger,
                   referrals, refCfg, tx, rowLock, refRun, conf, confLast,
                   rowCap, provider, promo, usages, notes, notify, outbox,
                   env, cfgio, codes, unlinked>>

\* db.insert_subscription: INSERT and commit, and in its `finally` the lock
\* is released; then the handler sends the client config.  A failing INSERT
\* leaves the peer behind.  The points purchase goes on to charge the
\* points and sends the config after that; a promo code that revived the
\* keys of an existing row sends no config.
InsertSub(p) ==
    /\ proc[p].pc = "insert"
    /\ ipLock' = Released(p)
    /\ LET r == proc[p]
       IN       /\ subs' = insert_subscription(
                               r.tg, ChannelOf(r.kind),
                               IF r.kind = "donation" THEN r.id[2] ELSE 0,
                               r.ip, r.key, r.exp, EventOf(r.kind, r.id))
                /\ configs' = IF \/ r.kind = "points"
                                  \/ (r.kind = "promo" /\ r.target # 0)
                               THEN configs
                               ELSE configs \cup {r.key}
                /\ Goto(p, [r EXCEPT
                               !.pc = IF r.kind = "points" THEN "charge"
                                      ELSE IF r.kind = "promo" THEN "link"
                                      ELSE "done",
                               !.res = IF r.kind \in {"points", "promo"}
                                       THEN @ ELSE "created",
                               !.send = r.target = 0,
                               !.target = Len(subs) + 1,
                               !.mutated = TRUE])
    /\ UNCHANGED <<now, peers, slots, prev, balance, ledger, referrals,
                   refCfg, tx, rowLock, refRun, conf, confLast, rowCap,
                   provider, promo, usages, notes, notify, outbox, env, cfgio,
                   codes, unlinked>>

(* ------------- card payments: handle_yookassa_webhook ----------------- *)
\* The webhook is parsed and the payment fetched from the API and checked;
\* nothing of the database is read or written before the checks pass.
CardStart(p, wh, api) ==
    /\ RoomForRow(p)
    /\ RoomForDays(wh.tg, TARIFF_DAYS(wh.tariff))
    /\ LET verdict == CardVerdict(wh, api)
           rec == [IdleRec EXCEPT !.kind = "card", !.tg = wh.tg,
                                  !.id = wh.pid, !.tariff = wh.tariff]
       IN  IF verdict = "verified"
           THEN Start(p, [rec EXCEPT !.pc = "gate", !.api = api,
                                     !.exp = TARIFF_DAYS(wh.tariff)])
           ELSE Start(p, [IdleRec EXCEPT !.kind = "card", !.id = wh.pid,
                                         !.pc = "done", !.res = verdict])
    /\ UNCHANGED <<now, subs, peers, ipLock, slots, configs, balance, ledger,
                   referrals, refCfg, tx, rowLock, refRun, conf, confLast,
                   rowCap, provider, promo, usages, notes, notify, outbox,
                   env, cfgio, codes, unlinked>>

\* The standalone webhook process, yookassa_webhook_runner's __main__.  (The
\* bot process serves the same route with the same handler: SpecRace.)
CardReceive(p, wh, api) == p = "web" /\ CardStart(p, wh, api)

\* if db.subscription_exists_by_event(event_name): "already processed"
CardGate(p) ==
    /\ proc[p].pc = "gate"
    /\ proc[p].kind = "card"
    /\ LET r == [proc[p] EXCEPT !.gate = EventOf("card", proc[p].id)]
       IN  IF subscription_exists_by_event(r.gate)
           THEN Goto(p, [r EXCEPT !.pc = "done", !.res = "already_processed"])
           ELSE Goto(p, [r EXCEPT !.pc = "pick"])
    /\ UNCHANGED <<now, subs, peers, ipLock, slots, prev, configs, balance,
                   ledger, referrals, refCfg, tx, rowLock, refRun, conf,
                   confLast, rowCap, provider, promo, usages, notes, notify,
                   outbox, env, cfgio, codes, unlinked>>

IsYooKassa(i) == subs[i].channel = "YooKassa"

\* The first YooKassa row among the user's active rows, 0 if there is none.
FirstYooKassa(seq) ==
    IF \E k \in DOMAIN seq : IsYooKassa(seq[k])
    THEN seq[CHOOSE k \in DOMAIN seq :
                 /\ IsYooKassa(seq[k])
                 /\ \A j \in DOMAIN seq : IsYooKassa(seq[j]) => k <= j]
    ELSE 0

\* The guard against retries of old payments: the row's last event is
\* another card payment, that payment could be fetched, and the incoming
\* payment was not created after it.
StalePayment(last, pid, fetched) ==
    /\ last.name = "yookassa_payment_succeeded"
    /\ last.id # NoId
    /\ last.id # pid
    /\ fetched
    /\ CreatedAt(pid) <= CreatedAt(last.id)

\* now = datetime.now(); active_subs = get_active_subscriptions_for_telegram;
\* a YooKassa row among them is extended, otherwise a new row is created.
CardPick(p, fetched) ==
    /\ proc[p].pc = "pick"
    /\ proc[p].kind = "card"
    /\ LET r == proc[p]
           yk == FirstYooKassa(get_active_subscriptions_for_telegram(r.tg))
           old == subs[yk].expires
       IN  IF yk # 0
           THEN IF StalePayment(subs[yk].ev, r.id, fetched)
                THEN Finish(p, "stale_payment")
                ELSE Goto(p, [r EXCEPT
                                 !.pc = "extend", !.target = yk, !.old = old,
                                 !.exp = (IF old > now THEN old ELSE now) + @])
           ELSE Goto(p, [r EXCEPT !.pc = "deact_list", !.exp = now + @])
    /\ UNCHANGED <<now, subs, peers, ipLock, slots, prev, configs, balance,
                   ledger, referrals, refCfg, tx, rowLock, refRun, conf,
                   confLast, rowCap, provider, promo, usages, notes, notify,
                   outbox, env, cfgio, codes, unlinked>>

\* db.update_subscription_expiration(sub_id, new_expires_at, event_name)
Extend(p) ==
    /\ proc[p].pc = "extend"
    /\ LET r == proc[p]
       IN  /\ subs' = update_subscription_expiration(
                          r.target, r.exp, EventOf(r.kind, r.id))
           /\ Goto(p, [r EXCEPT !.pc = "done", !.res = "extended",
                                !.mutated = TRUE])
    /\ UNCHANGED <<now, peers, ipLock, slots, prev, configs, balance, ledger,
                   referrals, refCfg, tx, rowLock, refRun, conf, confLast,
                   rowCap, provider, promo, usages, notes, notify, outbox,
                   env, cfgio, codes, unlinked>>

(* --------------- bot: admin commands and the sweeper ------------------ *)
\* /admin_deactivate <id>
AdminDeactivate(p, id) ==
    /\ p = "bot"
    /\ Start(p, [IdleRec EXCEPT !.kind = "admin_deactivate", !.pc = "deact_db",
                                !.tg = subs[id].tg, !.todo = <<id>>])
    /\ UNCHANGED <<now, subs, peers, ipLock, slots, configs, balance, ledger,
                   referrals, refCfg, tx, rowLock, refRun, conf, confLast,
                   rowCap, provider, promo, usages, notes, notify, outbox,
                   env, cfgio, codes, unlinked>>

\* /admin_activate <id>: sub_before = db.get_subscription_by_id(id), then the
\* user's active rows are deactivated, then the row is activated and its
\* peer added again.
AdminActivate(p, id) ==
    /\ p = "bot"
    /\ Start(p, [IdleRec EXCEPT !.kind = "admin_activate", !.pc = "deact_list",
                                !.tg = subs[id].tg, !.target = id])
    /\ UNCHANGED <<now, subs, peers, ipLock, slots, configs, balance, ledger,
                   referrals, refCfg, tx, rowLock, refRun, conf, confLast,
                   rowCap, provider, promo, usages, notes, notify, outbox,
                   env, cfgio, codes, unlinked>>

\* db.activate_subscription_by_id(sub_id, "admin_activate"); a row that is
\* already active ends the command.
Activate(p) ==
    /\ proc[p].pc = "activate"
    /\ LET r == proc[p]
           row == subs[r.target]
       IN  /\ subs' = activate_subscription_by_id(
                          r.target, EventOf("admin_activate", NoId))
           /\ IF row.active
              THEN Finish(p, "already_active")
              ELSE Goto(p, [r EXCEPT !.pc = "addpeer", !.key = row.key,
                                     !.ip = row.ip, !.mutated = TRUE])
    /\ UNCHANGED <<now, peers, ipLock, slots, prev, configs, balance, ledger,
                   referrals, refCfg, tx, rowLock, refRun, conf, confLast,
                   rowCap, provider, promo, usages, notes, notify, outbox,
                   env, cfgio, codes, unlinked>>

\* auto_deactivate_expired_subscriptions: one round of the loop, started
\* when get_expired_active_subscriptions() returns rows.
Sweep(p) ==
    /\ p = "bot"
    /\ get_expired_active_subscriptions # {}
    /\ Start(p, [IdleRec EXCEPT !.kind = "sweep", !.pc = "deact_db",
                                !.todo = OrderDesc(
                                    get_expired_active_subscriptions)])
    /\ UNCHANGED <<now, subs, peers, ipLock, slots, configs, balance, ledger,
                   referrals, refCfg, tx, rowLock, refRun, conf, confLast,
                   rowCap, provider, promo, usages, notes, notify, outbox,
                   env, cfgio, codes, unlinked>>

(* ---------------- legacy process: handle_new_donation ----------------- *)
Donations == {1} \X {1}

\* existing = get_subscription_by_tribute_and_subscription(...): the newest
\* row of that donation request, 0 if there is none.
get_subscription_by_tribute_and_subscription(did) ==
    LET S == {i \in Ids : subs[i].tg = did[1] /\ subs[i].don = did[2]}
    IN  IF S = {} THEN 0 ELSE CHOOSE i \in S : \A j \in S : i >= j

\* A repeated notification re-sends the config; otherwise the donation buys
\* 30 days from now with a new peer.  The user's other rows are not looked at.
DonationReceive(p, did) ==
    /\ p = "api"
    /\ RoomForRow(p)
    /\ LET ex == get_subscription_by_tribute_and_subscription(did)
           rec == [IdleRec EXCEPT !.kind = "donation", !.tg = did[1],
                                  !.id = did]
       IN  IF ex # 0 /\ subs[ex].active /\ subs[ex].ev = EvPlain("new_donation")
           THEN Start(p, [rec EXCEPT !.pc = "done", !.res = "duplicate"])
           ELSE Start(p, [rec EXCEPT !.pc = "lock",
                                     !.exp = now + TariffDays1m])
    /\ UNCHANGED <<now, subs, peers, ipLock, slots, configs, balance, ledger,
                   referrals, refCfg, tx, rowLock, refRun, conf, confLast,
                   rowCap, provider, promo, usages, notes, notify, outbox,
                   env, cfgio, codes, unlinked>>

(* ---------------------------- environment ----------------------------- *)
\* A month passes.
Tick ==
    /\ now < MaxTicks * TariffDays1m
    /\ now' = now + TariffDays1m
    /\ UNCHANGED <<subs, peers, ipLock, proc, slots, prev, configs, balance,
                   ledger, referrals, refCfg, tx, rowLock, refRun, conf,
                   confLast, rowCap, provider, promo, usages, notes, notify,
                   outbox, env, cfgio, codes, unlinked>>

(* ------------------------------- Spec --------------------------------- *)
NoRow == <<>>

\* No promo code exists.
NoPromo == <<>>

\* No call on the config file in progress; nobody holds the flock.
\* op, key : _append_peer_to_config or _remove_peer_from_config, and its key
\* lines   : the list the call will write (lines, new_lines)
\* tmp     : the lines of its temporary file so far
IdleIo == [pc |-> "idle", op |-> "none", key |-> 0, lines |-> <<>>,
           tmp |-> <<>>]
NoCalls == [lock |-> "free", call |-> [p \in Procs |-> IdleIo]]

\* The reminder worker between two sends.
IdleNotify == [pc |-> "idle", id |-> 0, kind |-> "none"]

\* No call on the config file yet.
NoConfOp == [op |-> "none", key |-> 0, before |-> <<>>]

InitData ==
    /\ now = 0
    /\ subs = <<>>
    /\ peers = {}
    /\ ipLock = "free"
    /\ proc = [p \in Procs |-> IdleRec]
    /\ prev = NoPrev
    /\ configs = {}
    /\ balance = [u \in Users |-> NoRow]
    /\ ledger = <<>>
    /\ tx = <<>>
    /\ rowLock = <<>>
    /\ refRun = <<>>
    /\ conf = <<>>
    /\ confLast = NoConfOp
    /\ rowCap = MaxSubs
    /\ promo = NoPromo
    /\ usages = <<>>
    /\ notes = {}
    /\ notify = IdleNotify
    /\ cfgio = NoCalls
    /\ codes = {}
    /\ unlinked = [u \in Users |-> 0]
    /\ outbox = <<>>
    /\ env = DefaultEnv

\* Every payment was made for one month.
AllOneMonth == [pid \in PaymentIds |-> "1m"]

\* Tariff 1m gives a base bonus of 50 points; level 1 pays it in full.
DefaultRefCfg ==
    [enabled |-> TRUE, base |-> 50, blocked |-> {},
     levels |-> [i \in 1..MaxLevels |->
                    [present |-> i = 1, active |-> i = 1,
                     mult2 |-> IF i = 1 THEN 2 ELSE 0]]]

\* Handlers run one at a time; user 2 was invited by user 1.
Init ==
    /\ InitData
    /\ provider = AllOneMonth
    /\ refCfg = DefaultRefCfg
    /\ slots = MaxBusy
    /\ referrals = [u \in Users |-> IF u = 2 THEN 1 ELSE 0]

Next ==
    \/ Tick
    \/ \E p \in Procs :
        \/ \E wh \in Webhooks :
               \E api \in ApiResponses(wh.pid) \cup {NoApi} :
                   CardReceive(p, wh, api)
        \/ \E id \in Ids : AdminDeactivate(p, id)
        \/ \E id \in Ids : AdminActivate(p, id)
        \/ Activate(p)
        \/ Sweep(p)
        \/ \E did \in Donations : DonationReceive(p, did)
        \/ CardGate(p)
        \/ \E fetched \in BOOLEAN : CardPick(p, fetched)
        \/ Extend(p)
        \/ DeactList(p)
        \/ DeactDb(p)
        \/ \E up \in BOOLEAN : DeactWg(p, up)
        \/ AcquireIpLock(p)
        \/ ScanIp(p)
        \/ \E up \in BOOLEAN : AddPeer(p, up)
        \/ InsertSub(p)
        \/ Return(p)

Spec == Init /\ [][Next]_vars

(* ----------------------------- SpecAlloc ------------------------------ *)
\* Provisioning in the webhook process and in the legacy process at the same
\* time: every statement of one may fall between two statements of the other.
InitAlloc ==
    /\ InitData
    /\ provider = AllOneMonth
    /\ refCfg = DefaultRefCfg
    /\ slots = MaxBusy + 1
    /\ referrals = [u \in Users |-> 0]

NextAlloc ==
    \/ Tick
    \/ \E p \in {"web", "api"} :
        \/ \E wh \in Webhooks :
               \E api \in ApiResponses(wh.pid) \cup {NoApi} :
                   CardReceive(p, wh, api)
        \/ \E did \in Donations : DonationReceive(p, did)
        \/ CardGate(p)
        \/ \E fetched \in BOOLEAN : CardPick(p, fetched)
        \/ Extend(p)
        \/ DeactList(p)
        \/ DeactDb(p)
        \/ \E up \in BOOLEAN : DeactWg(p, up)
        \/ AcquireIpLock(p)
        \/ ScanIp(p)
        \/ \E up \in BOOLEAN : AddPeer(p, up)
        \/ InsertSub(p)
        \/ Return(p)

SpecAlloc == InitAlloc /\ [][NextAlloc]_vars

(* ------------ crypto payments: handle_heleket_webhook ----------------- *)
\* A final paid crypto payment: <<payer, n>> stands for its uuid.  The
\* signed body names the payer and the tariff.
CryptoIds == Users \X {1}
CryptoTariff(uuid) == "3m"

\* A signature check that accepts every body.
SignatureUnchecked(req, data) == TRUE

\* verify_heleket_ip: the check is switched off, or the X-Real-IP header,
\* the first address of X-Forwarded-For or the peer address is the trusted
\* one.
verify_heleket_ip(req) ==
    \/ env.noIpCheck
    \/ LET candidates ==
               (IF req.realip # "" THEN <<req.realip>> ELSE <<>>)
                   \o (IF req.fwd # <<>> THEN <<Head(req.fwd)>> ELSE <<>>)
                   \o (IF req.remote # "" THEN <<req.remote>> ELSE <<>>)
       IN  \E k \in DOMAIN candidates : candidates[k] = TrustedIp

\* verify_heleket_signature for a body with content data: without a
\* configured key the switch decides; otherwise the body needs a sign field
\* equal to the hash of its content with the configured key.
verify_heleket_signature(req, data) ==
    IF env.key = 0 THEN env.noSigCheck
    ELSE IF req.sign = NoSign THEN FALSE
    ELSE req.sign = Sign(data, env.key)

\* The webhook Heleket itself sends for a payment.
GenuineReq(uuid) ==
    [remote |-> TrustedIp, realip |-> "", fwd |-> <<>>,
     sign |-> Sign(uuid, env.key)]

\* IP and signature checks, status and metadata; days = TARIFF_DAYS[...].
\* The aiohttp application of create_app also runs inside the bot process.
CryptoReceive(p, uuid, req) ==
    /\ p = "bot"
    /\ RoomForRow(p)
    /\ \A i \in Ids : subs[i].tg = PayerOf(uuid)
                          => subs[i].expires <= HorizonDays
    /\ LET rec == [IdleRec EXCEPT !.kind = "crypto", !.tg = PayerOf(uuid),
                                  !.id = uuid, !.req = req, !.pc = "done"]
       IN  IF ~verify_heleket_ip(req)
           THEN Start(p, [rec EXCEPT !.res = "ip_mismatch"])
           ELSE IF ~verify_heleket_signature(req, uuid)
           THEN Start(p, [rec EXCEPT !.res = "bad_signature"])
           ELSE Start(p, [rec EXCEPT
                             !.tariff = CryptoTariff(uuid),
                             !.exp = TARIFF_DAYS(CryptoTariff(uuid)),
                             !.pc = "gate"])
    /\ UNCHANGED <<now, subs, peers, ipLock, slots, configs, balance, ledger,
                   referrals, refCfg, tx, rowLock, refRun, conf, confLast,
                   rowCap, provider, promo, usages, notes, notify, outbox,
                   env, cfgio, codes, unlinked>>

\* if uuid and db.subscription_exists_by_event(event_name)
CryptoGate(p) ==
    /\ proc[p].pc = "gate"
    /\ proc[p].kind = "crypto"
    /\ LET r == [proc[p] EXCEPT !.gate = EventOf("crypto", proc[p].id)]
       IN  IF subscription_exists_by_event(r.gate)
           THEN Goto(p, [r EXCEPT !.pc = "done", !.res = "already_processed"])
           ELSE Goto(p, [r EXCEPT !.pc = "pick"])
    /\ UNCHANGED <<now, subs, peers, ipLock, slots, prev, configs, balance,
                   ledger, referrals, refCfg, tx, rowLock, refRun, conf,
                   confLast, rowCap, provider, promo, usages, notes, notify,
                   outbox, env, cfgio, codes, unlinked>>

IsHeleket(i) == subs[i].channel = "Heleket"

\* The Heleket row among the active rows if there is one, otherwise the
\* first active row (the one that expires last), 0 if there is none.
BaseSub(seq) ==
    IF \E k \in DOMAIN seq : IsHeleket(seq[k])
    THEN seq[CHOOSE k \in DOMAIN seq :
                 /\ IsHeleket(seq[k])
                 /\ \A j \in DOMAIN seq : IsHeleket(seq[j]) => k <= j]
    ELSE IF seq # <<>> THEN seq[1]
    ELSE 0

\* now, active_subs, base_sub; old_expires_at and new_expires_at.
CryptoPick(p) ==
    /\ proc[p].pc = "pick"
    /\ proc[p].kind = "crypto"
    /\ LET r == proc[p]
           base == BaseSub(get_active_subscriptions_for_telegram(r.tg))
           old == subs[base].expires
       IN  IF base # 0
           THEN Goto(p, [r EXCEPT
                            !.pc = "extend", !.target = base, !.old = old,
                            !.exp = (IF old > now THEN old ELSE now) + @])
           ELSE Goto(p, [r EXCEPT !.pc = "deact_list", !.exp = now + @])
    /\ UNCHANGED <<now, subs, peers, ipLock, slots, prev, configs, balance,
                   ledger, referrals, refCfg, tx, rowLock, refRun, conf,
                   confLast, rowCap, provider, promo, usages, notes, notify,
                   outbox, env, cfgio, codes, unlinked>>

\* User 1 has a card subscription; the standalone webhook process and the
\* bot process each may have a handler in progress.
InitExtend ==
    /\ now = 0
    /\ subs = <<[tg |-> 1, channel |-> "YooKassa", don |-> 0,
                 ip |-> FirstClientHost, key |-> 1, expires |-> TariffDays1m,
                 active |-> TRUE,
                 ev |-> Ev("yookassa_payment_succeeded", <<1, 1>>),
                 origin |-> Ev("yookassa_payment_succeeded", <<1, 1>>)]>>
    /\ peers = {1}
    /\ ipLock = "free"
    /\ proc = [p \in Procs |-> IdleRec]
    /\ slots = MaxBusy + 1
    /\ prev = NoPrev
    /\ configs = {1}
    /\ balance = [u \in Users |-> NoRow]
    /\ ledger = <<>>
    /\ referrals = [u \in Users |-> 0]
    /\ refCfg = DefaultRefCfg
    /\ tx = <<>>
    /\ rowLock = <<>>
    /\ refRun = <<>>
    /\ conf = <<>>
    /\ confLast = NoConfOp
    /\ rowCap = MaxSubs + 1
    /\ promo = NoPromo
    /\ usages = <<>>
    /\ notes = {}
    /\ notify = IdleNotify
    /\ cfgio = NoCalls
    /\ codes = {}
    /\ unlinked = [u \in Users |-> 0]
    /\ outbox = <<>>
    /\ env = DefaultEnv
    /\ provider = AllOneMonth

NextExtend ==
    \E p \in {"web", "bot"} :
        \/ \E wh \in Webhooks :
               \E api \in ApiResponses(wh.pid) \cup {NoApi} :
                   CardReceive(p, wh, api)
        \/ CardGate(p)
        \/ \E fetched \in BOOLEAN : CardPick(p, fetched)
        \/ \E uuid \in CryptoIds :
               CryptoReceive(p, uuid, GenuineReq(uuid))
        \/ CryptoGate(p)
        \/ CryptoPick(p)
        \/ Extend(p)
        \/ DeactList(p)
        \/ DeactDb(p)
        \/ \E up \in BOOLEAN : DeactWg(p, up)
        \/ AcquireIpLock(p)
        \/ ScanIp(p)
        \/ \E up \in BOOLEAN : AddPeer(p, up)
        \/ InsertSub(p)
        \/ Return(p)

SpecExtend == InitExtend /\ [][NextExtend]_vars

(* ----------------------------- SpecPoints ----------------------------- *)
\* add_points and pay_subscription_with_points as READ COMMITTED
\* transactions.  A transaction sees committed rows only; SELECT ... FOR
\* UPDATE and the upsert lock the user_points row of the user and wait while
\* another transaction holds it; a row that does not exist cannot be locked.
Txs == 1..NumTx
Deltas == {-1, 0, 1, 2}

IdleTx ==
    [pc |-> "idle", kind |-> "none", tg |-> 0, delta |-> 0, neg |-> FALSE,
     new |-> 0, sub |-> 0, res |-> "none"]

GotoTx(t, rec) == tx' = [tx EXCEPT ![t] = rec]

\* Every lock of transaction t is dropped (commit or rollback).
Unlocked(t) ==
    [points |-> [u \in Users |->
                    IF rowLock.points[u] = t THEN 0 ELSE rowLock.points[u]],
     sub |-> [i \in DOMAIN rowLock.sub |->
                    IF rowLock.sub[i] = t THEN 0 ELSE rowLock.sub[i]]]

Bal(u) == IF balance[u] = NoRow THEN 0 ELSE balance[u][1]

\* add_points(...): delta == 0 is refused before the database is touched.
AddPointsBegin(t, u, delta, neg) ==
    /\ tx[t].pc = "idle"
    /\ Len(ledger) + Cardinality({x \in Txs \ {t} : tx[x].pc # "idle"})
           < MaxLedger
    /\ GotoTx(t, IF delta = 0
                 THEN [IdleTx EXCEPT !.pc = "done", !.kind = "add",
                                     !.tg = u, !.res = "zero_delta"]
                 ELSE [IdleTx EXCEPT !.pc = "select", !.kind = "add",
                                     !.tg = u, !.delta = delta, !.neg = neg])
    /\ UNCHANGED <<now, subs, peers, ipLock, proc, slots, prev, configs,
                   balance, ledger, referrals, refCfg, rowLock, refRun, conf,
                   confLast, rowCap, provider, promo, usages, notes, notify,
                   outbox, env, cfgio, codes, unlinked>>

\* SELECT balance FROM user_points WHERE telegram_user_id = %s FOR UPDATE;
\* no row: old_balance = 0.  Then the check against a negative balance.
AddPointsSelect(t) ==
    /\ tx[t].pc = "select"
    /\ tx[t].kind = "add"
    /\ LET u == tx[t].tg
           new == Bal(u) + tx[t].delta
       IN  /\ balance[u] # NoRow => rowLock.points[u] \in {0, t}
           /\ IF ~tx[t].neg /\ new < 0
              THEN /\ rowLock' = Unlocked(t)
                   /\ GotoTx(t, [tx[t] EXCEPT !.pc = "done",
                                              !.res = "insufficient_funds"])
              ELSE /\ rowLock' = IF balance[u] # NoRow
                                 THEN [rowLock EXCEPT !.points[u] = t]
                                 ELSE rowLock
                   /\ GotoTx(t, [tx[t] EXCEPT !.pc = "upsert", !.new = new])
    /\ UNCHANGED <<now, subs, peers, ipLock, proc, slots, prev, configs,
                   balance, ledger, referrals, refCfg, refRun, conf, confLast,
                   rowCap, provider, promo, usages, notes, notify, outbox,
                   env, cfgio, codes, unlinked>>

\* INSERT INTO user_points ... ON CONFLICT (telegram_user_id) DO UPDATE SET
\* balance = EXCLUDED.balance: the row, inserted or updated, gets the balance
\* the transaction computed, and stays locked until the commit.
Upsert(t) ==
    /\ tx[t].pc = "upsert"
    /\ rowLock.points[tx[t].tg] \in {0, t}
    /\ rowLock' = [rowLock EXCEPT !.points[tx[t].tg] = t]
    /\ GotoTx(t, [tx[t] EXCEPT !.pc = "commit"])
    /\ UNCHANGED <<now, subs, peers, ipLock, proc, slots, prev, configs,
                   balance, ledger, referrals, refCfg, refRun, conf, confLast,
                   rowCap, provider, promo, usages, notes, notify, outbox,
                   env, cfgio, codes, unlinked>>

LedgerRow(tg, delta, reason, level) ==
    [tg |-> tg, delta |-> delta, reason |-> reason, level |-> level]

\* INSERT INTO user_points_transactions ...; conn.commit()
AddPointsCommit(t) ==
    /\ tx[t].pc = "commit"
    /\ tx[t].kind = "add"
    /\ balance' = [balance EXCEPT ![tx[t].tg] = <<tx[t].new>>]
    /\ ledger' = Append(ledger, LedgerRow(tx[t].tg, tx[t].delta, "manual", 0))
    /\ rowLock' = Unlocked(t)
    /\ GotoTx(t, [tx[t] EXCEPT !.pc = "done", !.res = "ok"])
    /\ UNCHANGED <<now, subs, peers, ipLock, proc, slots, prev, configs,
                   referrals, refCfg, refRun, conf, confLast, rowCap,
                   provider, promo, usages, notes, notify, outbox, env, cfgio,
                   codes, unlinked>>

\* pay_subscription_with_points(...): the tariff is read first.
PayBegin(t, u) ==
    /\ tx[t].pc = "idle"
    /\ Len(ledger) + Cardinality({x \in Txs \ {t} : tx[x].pc # "idle"})
           < MaxLedger
    /\ GotoTx(t, [IdleTx EXCEPT !.pc = "sub_select", !.kind = "pay",
                                !.tg = u, !.delta = -PointsCost])
    /\ UNCHANGED <<now, subs, peers, ipLock, proc, slots, prev, configs,
                   balance, ledger, referrals, refCfg, rowLock, refRun, conf,
                   confLast, rowCap, provider, promo, usages, notes, notify,
                   outbox, env, cfgio, codes, unlinked>>

\* SELECT * FROM vpn_subscriptions WHERE ... active AND expires_at > NOW()
\* ORDER BY expires_at DESC, id DESC LIMIT 1 FOR UPDATE
PaySubSelect(t) ==
    /\ tx[t].pc = "sub_select"
    /\ LET S == ActiveIdsOf(tx[t].tg)
       IN  IF S = {}
           THEN /\ rowLock' = rowLock
                /\ GotoTx(t, [tx[t] EXCEPT !.pc = "done",
                                           !.res = "no_active_subscription"])
           ELSE /\ rowLock.sub[First(S)] \in {0, t}
                /\ rowLock' = [rowLock EXCEPT !.sub[First(S)] = t]
                /\ GotoTx(t, [tx[t] EXCEPT !.pc = "select", !.sub = First(S)])
    /\ UNCHANGED <<now, subs, peers, ipLock, proc, slots, prev, configs,
                   balance, ledger, referrals, refCfg, refRun, conf, confLast,
                   rowCap, provider, promo, usages, notes, notify, outbox,
                   env, cfgio, codes, unlinked>>

\* SELECT balance ... FOR UPDATE, then current_balance < points_cost ends
\* the call with insufficient_points.
PayPointsSelect(t) ==
    /\ tx[t].pc = "select"
    /\ tx[t].kind = "pay"
    /\ LET u == tx[t].tg
       IN  /\ balance[u] # NoRow => rowLock.points[u] \in {0, t}
           /\ IF Bal(u) < PointsCost
              THEN /\ rowLock' = Unlocked(t)
                   /\ GotoTx(t, [tx[t] EXCEPT !.pc = "done",
                                              !.res = "insufficient_points"])
              ELSE /\ rowLock' = IF balance[u] # NoRow
                                 THEN [rowLock EXCEPT !.points[u] = t]
                                 ELSE rowLock
                   /\ GotoTx(t, [tx[t] EXCEPT !.pc = "upsert",
                                              !.new = Bal(u) - PointsCost])
    /\ UNCHANGED <<now, subs, peers, ipLock, proc, slots, prev, configs,
                   balance, ledger, referrals, refCfg, refRun, conf, confLast,
                   rowCap, provider, promo, usages, notes, notify, outbox,
                   env, cfgio, codes, unlinked>>

\* The ledger row, UPDATE vpn_subscriptions SET expires_at =
\* GREATEST(expires_at, NOW()) + days, last_event_name; conn.commit()
PayCommit(t) ==
    /\ tx[t].pc = "commit"
    /\ tx[t].kind = "pay"
    /\ LET old == subs[tx[t].sub].expires
       IN  subs' = update_subscription_expiration(
                       tx[t].sub,
                       (IF old > now THEN old ELSE now) + TariffDays1m,
                       EvPlain("points_extend"))
    /\ balance' = [balance EXCEPT ![tx[t].tg] = <<tx[t].new>>]
    /\ ledger' = Append(ledger, LedgerRow(tx[t].tg, tx[t].delta,
                                          "subscription_extend", 0))
    /\ rowLock' = Unlocked(t)
    /\ GotoTx(t, [tx[t] EXCEPT !.pc = "done", !.res = "ok"])
    /\ UNCHANGED <<now, peers, ipLock, proc, slots, prev, configs, referrals,
                   refCfg, refRun, conf, confLast, rowCap, provider, promo,
                   usages, notes, notify, outbox, env, cfgio, codes,
                   unlinked>>

\* The call returns.
TxReturn(t) ==
    /\ tx[t].pc = "done"
    /\ GotoTx(t, IdleTx)
    /\ UNCHANGED <<now, subs, peers, ipLock, proc, slots, prev, configs,
                   balance, ledger, referrals, refCfg, rowLock, refRun, conf,
                   confLast, rowCap, provider, promo, usages, notes, notify,
                   outbox, env, cfgio, codes, unlinked>>

\* User 1 has a card subscription; nobody has a user_points row yet.
InitPoints ==
    /\ now = 0
    /\ subs = <<[tg |-> 1, channel |-> "YooKassa", don |-> 0,
                 ip |-> FirstClientHost, key |-> 1, expires |-> TariffDays1m,
                 active |-> TRUE,
                 ev |-> Ev("yookassa_payment_succeeded", <<1, 1>>),
                 origin |-> Ev("yookassa_payment_succeeded", <<1, 1>>)]>>
    /\ peers = {1}
    /\ ipLock = "free"
    /\ proc = [p \in Procs |-> IdleRec]
    /\ slots = MaxBusy
    /\ prev = NoPrev
    /\ configs = {1}
    /\ balance = [u \in Users |-> NoRow]
    /\ ledger = <<>>
    /\ referrals = [u \in Users |-> 0]
    /\ refCfg = <<>>
    /\ tx = [t \in Txs |-> IdleTx]
    /\ rowLock = [points |-> [u \in Users |-> 0], sub |-> <<0>>]
    /\ refRun = <<>>
    /\ conf = <<>>
    /\ confLast = NoConfOp
    /\ rowCap = MaxSubs
    /\ promo = NoPromo
    /\ usages = <<>>
    /\ notes = {}
    /\ notify = IdleNotify
    /\ cfgio = NoCalls
    /\ codes = {}
    /\ unlinked = [u \in Users |-> 0]
    /\ outbox = <<>>
    /\ env = DefaultEnv
    /\ provider = AllOneMonth

NextPoints ==
    \E t \in Txs :
        \/ \E u \in Users, delta \in Deltas, neg \in BOOLEAN :
               AddPointsBegin(t, u, delta, neg)
        \/ AddPointsSelect(t)
        \/ Upsert(t)
        \/ AddPointsCommit(t)
        \/ \E u \in Users : PayBegin(t, u)
        \/ PaySubSelect(t)
        \/ PayPointsSelect(t)
        \/ PayCommit(t)
        \/ TxReturn(t)

SpecPoints == InitPoints /\ [][NextPoints]_vars

(* ------------------------------ SpecRef ------------------------------- *)
\* /start <code>, register_referral_start and create_referral_link: the
\* code "owner" names its owner (0: no active code of that name).
\* create_referral_link without its check of an existing row.
LinkWithoutCheck(referred, referrer) ==
    IF referred = referrer THEN [ok |-> FALSE, error |-> "self_ref"]
    ELSE [ok |-> TRUE, error |-> "none"]

\* create_referral_link(referred, referrer): the result it returns; the row
\* is inserted exactly when the result is ok.  referred is the primary key
\* of the table, and the bot, the only caller, runs the whole synchronous
\* call between two awaits.
create_referral_link(referred, referrer) ==
    IF referred = referrer THEN [ok |-> FALSE, error |-> "self_ref"]
    ELSE IF referrals[referred] # 0
    THEN [ok |-> FALSE, error |-> "already_has_referrer"]
    ELSE [ok |-> TRUE, error |-> "none"]

\* register_referral_start(invited, code): the result for invited user u and
\* a code owned by owner.
register_referral_start(u, owner) ==
    IF owner = 0 THEN [ok |-> FALSE, error |-> "code_not_found_or_inactive"]
    ELSE IF u = owner THEN [ok |-> FALSE, error |-> "self_ref"]
    ELSE create_referral_link(u, owner)

RegisterReferralStart(u, owner) ==
    /\ referrals' =
           IF register_referral_start(u, owner).ok
           THEN [referrals EXCEPT ![u] = owner]
           ELSE referrals
    /\ UNCHANGED <<now, subs, peers, ipLock, proc, slots, prev, configs,
                   balance, ledger, refCfg, tx, rowLock, refRun, conf,
                   confLast, rowCap, provider, promo, usages, notes, notify,
                   outbox, env, cfgio, codes, unlinked>>

\* get_referral_upline_chain(u, max_levels): the referrers of u, nearest
\* first, following the referrals rows for at most max_levels hops.
RECURSIVE get_referral_upline_chain(_, _)
get_referral_upline_chain(u, max_levels) ==
    IF max_levels = 0 \/ referrals[u] = 0 THEN <<>>
    ELSE <<referrals[u]>>
             \o get_referral_upline_chain(referrals[u], max_levels - 1)

\* Python's int(round(n / d)) for n >= 0, d > 0: to the nearest integer, a
\* tie to the even one.
Round(n, d) ==
    LET q == n \div d
        r == n % d
    IN  IF 2 * r < d THEN q
        ELSE IF 2 * r > d THEN q + 1
        ELSE IF q % 2 = 0 THEN q ELSE q + 1

\* The bonus of one level: base_bonus_int * multiplier_float, rounded.  The
\* multiplier is kept in halves (mult2 = 3 is 1.5), which floats hold exactly.
Bonus(base, mult2) == Round(base * mult2, 2)

\* The loop over the upline: the awards of levels i..Len(upline), skipping a
\* level that is not configured, not active, has no multiplier or no bonus.
RECURSIVE Awards(_, _)
Awards(upline, i) ==
    IF i > Len(upline) THEN <<>>
    ELSE LET cfg == refCfg.levels[i]
             bonus == Bonus(refCfg.base, cfg.mult2)
         IN  (IF cfg.present /\ cfg.active /\ cfg.mult2 > 0 /\ bonus > 0
              THEN <<[level |-> i, referrer |-> upline[i], bonus |-> bonus]>>
              ELSE <<>>)
                 \o Awards(upline, i + 1)

\* reason = f"ref_level_{level_idx}"
RefReason(level) ==
    <<"ref_level_1", "ref_level_2", "ref_level_3", "ref_level_4",
      "ref_level_5">>[level]

RECURSIVE SumBonus(_, _)
SumBonus(awards, u) ==
    IF awards = <<>> THEN 0
    ELSE (IF Head(awards).referrer = u THEN Head(awards).bonus ELSE 0)
             + SumBonus(Tail(awards), u)

\* apply_referral_rewards_for_subscription(payer, ...): one add_points call
\* per award, each its own transaction, in the order of the levels.
ApplyReferralRewards(payer) ==
    /\ Len(refRun) < MaxRuns
    /\ LET skipped ==
               IF payer \in refCfg.blocked THEN "payer_referral_blocked"
               ELSE IF ~refCfg.enabled \/ refCfg.base <= 0
                    THEN "tariff_referral_disabled_or_zero_bonus"
               ELSE IF get_referral_upline_chain(payer, MaxLevels) = <<>>
                    THEN "no_referrers"
               ELSE "none"
           upline == get_referral_upline_chain(payer, MaxLevels)
           awards == IF skipped = "none" THEN Awards(upline, 1) ELSE <<>>
       IN  /\ balance' = [u \in Users |->
                             IF \E k \in DOMAIN awards : awards[k].referrer = u
                             THEN <<Bal(u) + SumBonus(awards, u)>>
                             ELSE balance[u]]
           /\ ledger' = ledger \o
                  [k \in DOMAIN awards |->
                      LedgerRow(awards[k].referrer, awards[k].bonus,
                                RefReason(awards[k].level), awards[k].level)]
           /\ refRun' = Append(refRun, [payer |-> payer, skipped |-> skipped,
                                        upline |-> upline, awards |-> awards,
                                        first |-> Len(ledger) + 1])
    /\ UNCHANGED <<now, subs, peers, ipLock, proc, slots, prev, configs,
                   referrals, refCfg, tx, rowLock, conf, confLast, rowCap,
                   provider, promo, usages, notes, notify, outbox, env, cfgio,
                   codes, unlinked>>

\* A referral_levels row: present or not, is_active, multiplier in halves.
NoLevel == [present |-> FALSE, active |-> FALSE, mult2 |-> 0]
LevelRows ==
    {NoLevel}
        \cup [present : {TRUE}, active : {FALSE}, mult2 : {2}]
        \cup [present : {TRUE}, active : {TRUE}, mult2 : {0, 1, 2}]
DeepLevelRows ==
    {NoLevel} \cup [present : {TRUE}, active : {TRUE}, mult2 : {1, 2}]

\* Nobody has a referrer or points yet; the settings are any of a few.
InitRef ==
    /\ InitData
    /\ provider = AllOneMonth
    /\ slots = MaxBusy
    /\ referrals = [u \in Users |-> 0]
    /\ refCfg \in [enabled : BOOLEAN, base : {0, 1, 5},
                   blocked : {{}, {1}},
                   levels : {f \in [1..MaxLevels -> LevelRows] :
                                \A i \in 3..MaxLevels : f[i] \in DeepLevelRows}]

NextRef ==
    \/ \E u \in Users, owner \in Users \cup {0} :
           RegisterReferralStart(u, owner)
    \/ \E payer \in Users : ApplyReferralRewards(payer)

SpecRef == InitRef /\ [][NextRef]_vars

(* ------------------------------ SpecConf ------------------------------ *)
\* The config file as a sequence of lines.  A line has a type t: "comment"
\* (starts with "# auto-added by vpn_service"), "peer" ([Peer]), "pub"
\* (PublicKey = k), "ips" (AllowedIPs = ...), "blank", or "iface" (a line of
\* the [Interface] section).  own is history: the key whose add_peer wrote
\* the line, 0 for a line written by hand.  The code never reads own.
ConfKeys == 1..NumConfKeys
ManualKey == NumConfKeys + 1

Line(t, k, own) == [t |-> t, k |-> k, own |-> own]

\* _append_peer_to_config: two empty lines, the comment, [Peer], PublicKey,
\* AllowedIPs.
ManagedBlock(k) ==
    <<Line("blank", 0, k), Line("blank", 0, k), Line("comment", 0, k),
      Line("peer", 0, k), Line("pub", k, k), Line("ips", k, k)>>

\* A [Peer] block typed by the administrator.
ManualBlock ==
    <<Line("peer", 0, 0), Line("pub", ManualKey, 0),
      Line("ips", ManualKey, 0)>>

\* The first index >= i of an empty line, Len(lines) + 1 if there is none:
\* while i < n and lines[i].strip() != "": i += 1
RECURSIVE SkipBlock(_, _)
SkipBlock(lines, i) ==
    IF i > Len(lines) \/ lines[i].t = "blank" THEN i
    ELSE SkipBlock(lines, i + 1)

\* A loop that stops looking after the first block it removed.
RECURSIVE RemoveFirstOnly(_, _, _)
RemoveFirstOnly(lines, i, key) ==
    IF i > Len(lines) THEN <<>>
    ELSE IF /\ lines[i].t = "comment"
            /\ i + 2 <= Len(lines)
            /\ lines[i + 1].t = "peer"
            /\ lines[i + 2].t = "pub"
            /\ lines[i + 2].k = key
         THEN LET j == SkipBlock(lines, i + 3)
              IN  SubSeq(lines, IF j <= Len(lines) THEN j + 1 ELSE j,
                         Len(lines))
         ELSE <<lines[i]>> \o RemoveFirstOnly(lines, i + 1, key)

\* The loop of _remove_peer_from_config from index i on: new_lines.
RECURSIVE RemoveLoop(_, _, _)
RemoveLoop(lines, i, key) ==
    IF i > Len(lines) THEN <<>>
    ELSE IF /\ lines[i].t = "comment"
            /\ i + 2 <= Len(lines)
            /\ lines[i + 1].t = "peer"
            /\ lines[i + 2].t = "pub"
            /\ lines[i + 2].k = key
         THEN LET j == SkipBlock(lines, i + 3)
              IN  RemoveLoop(lines, IF j <= Len(lines) THEN j + 1 ELSE j, key)
         ELSE <<lines[i]>> \o RemoveLoop(lines, i + 1, key)

_remove_peer_from_config(lines, key) ==
    IF lines = <<>> THEN lines ELSE RemoveLoop(lines, 1, key)

_append_peer_to_config(lines, key) == lines \o ManagedBlock(key)

\* add_peer(public_key, ...): the probe, wg set, then the file.  A failed
\* probe raises before anything is done.
AddPeerConf(k, up) ==
    /\ Len(conf) + Len(ManagedBlock(k)) <= MaxConfLen
    /\ IF up
       THEN /\ peers' = peers \cup {k}
            /\ conf' = _append_peer_to_config(conf, k)
            /\ confLast' = [op |-> "add", key |-> k, before |-> conf]
       ELSE UNCHANGED <<peers, conf, confLast, rowCap, provider, promo,
                        usages, notes, notify, outbox, env, cfgio, codes,
                        unlinked>>
    /\ UNCHANGED <<now, subs, ipLock, proc, slots, prev, configs, balance,
                   ledger, referrals, refCfg, tx, rowLock, refRun, rowCap,
                   provider, promo, usages, notes, notify, outbox, env, cfgio,
                   codes, unlinked>>

\* remove_peer(public_key): the probe, wg set ... remove, then the file.
RemovePeerConf(k, up) ==
    /\ IF up
       THEN /\ peers' = peers \ {k}
            /\ conf' = _remove_peer_from_config(conf, k)
            /\ confLast' = [op |-> "remove", key |-> k, before |-> conf]
       ELSE UNCHANGED <<peers, conf, confLast, rowCap, provider, promo,
                        usages, notes, notify, outbox, env, cfgio, codes,
                        unlinked>>
    /\ UNCHANGED <<now, subs, ipLock, proc, slots, prev, configs, balance,
                   ledger, referrals, refCfg, tx, rowLock, refRun, rowCap,
                   provider, promo, usages, notes, notify, outbox, env, cfgio,
                   codes, unlinked>>

\* The administrator appends a [Peer] block by hand, after an empty line or
\* directly after the last line.
ManualEdit(gap) ==
    /\ Len(conf) + Len(ManualBlock) + 1 <= MaxConfLen
    /\ ~\E i \in DOMAIN conf : conf[i].t = "pub" /\ conf[i].k = ManualKey
    /\ conf' = conf \o (IF gap THEN <<Line("blank", 0, 0)>> ELSE <<>>)
                    \o ManualBlock
    /\ confLast' = [op |-> "manual", key |-> ManualKey, before |-> conf]
    /\ UNCHANGED <<now, subs, peers, ipLock, proc, slots, prev, configs,
                   balance, ledger, referrals, refCfg, tx, rowLock, refRun,
                   rowCap, provider, promo, usages, notes, notify, outbox,
                   env, cfgio, codes, unlinked>>

\* The file holds the [Interface] section only.
InitConf ==
    /\ now = 0
    /\ subs = <<>>
    /\ peers = {}
    /\ ipLock = "free"
    /\ proc = [p \in Procs |-> IdleRec]
    /\ slots = MaxBusy
    /\ prev = NoPrev
    /\ configs = {}
    /\ balance = [u \in Users |-> NoRow]
    /\ ledger = <<>>
    /\ referrals = [u \in Users |-> 0]
    /\ refCfg = DefaultRefCfg
    /\ tx = <<>>
    /\ rowLock = <<>>
    /\ refRun = <<>>
    /\ conf = <<Line("iface", 0, 0), Line("iface", 0, 0)>>
    /\ confLast = NoConfOp
    /\ rowCap = MaxSubs
    /\ promo = NoPromo
    /\ usages = <<>>
    /\ notes = {}
    /\ notify = IdleNotify
    /\ cfgio = NoCalls
    /\ codes = {}
    /\ unlinked = [u \in Users |-> 0]
    /\ outbox = <<>>
    /\ env = DefaultEnv
    /\ provider = AllOneMonth

NextConf ==
    \/ \E k \in ConfKeys, up \in BOOLEAN : AddPeerConf(k, up)
    \/ \E k \in ConfKeys, up \in BOOLEAN : RemovePeerConf(k, up)
    \/ \E gap \in BOOLEAN : ManualEdit(gap)

SpecConf == InitConf /\ [][NextConf]_vars

(* ------------------------------ SpecFile ------------------------------ *)
\* _append_peer_to_config and _remove_peer_from_config statement by
\* statement, called from every process: flock, read, write of the
\* temporary file, os.replace, unlock.

\* A flock that lets everybody in.
LockNothing(p) ==
    /\ cfgio.call[p].pc = "flock"
    /\ cfgio' = [cfgio EXCEPT !.call[p].pc = "read"]
    /\ UNCHANGED <<now, subs, peers, ipLock, proc, slots, prev, configs,
                   balance, ledger, referrals, refCfg, tx, rowLock, refRun,
                   conf, confLast, rowCap, provider, promo, usages, notes,
                   notify, outbox, env, codes, unlinked>>

\* What the call writes, given the lines it read.
NewLines(op, key, lines) ==
    IF op = "add" THEN _append_peer_to_config(lines, key)
    ELSE _remove_peer_from_config(lines, key)

\* A process calls one of the two functions.
ConfCall(p, op, k) ==
    /\ cfgio.call[p].pc = "idle"
    /\ cfgio' = [cfgio EXCEPT !.call[p] =
                     [IdleIo EXCEPT !.pc = "flock", !.op = op, !.key = k]]
    /\ UNCHANGED <<now, subs, peers, ipLock, proc, slots, prev, configs,
                   balance, ledger, referrals, refCfg, tx, rowLock, refRun,
                   conf, confLast, rowCap, provider, promo, usages, notes,
                   notify, outbox, env, codes, unlinked>>

\* fcntl.flock(lock_file, LOCK_EX) returns once nobody else holds the lock.
_wg_config_lock(p) ==
    /\ cfgio.call[p].pc = "flock"
    /\ cfgio.lock = "free"
    /\ cfgio' = [cfgio EXCEPT !.lock = p, !.call[p].pc = "read"]
    /\ UNCHANGED <<now, subs, peers, ipLock, proc, slots, prev, configs,
                   balance, ledger, referrals, refCfg, tx, rowLock, refRun,
                   conf, confLast, rowCap, provider, promo, usages, notes,
                   notify, outbox, env, codes, unlinked>>

\* lines = _read_config_lines() and the list to write; a removal that read
\* an empty file returns at once.  (A file that would outgrow MaxFileLen is
\* left as it is.)
ConfRead(p) ==
    /\ cfgio.call[p].pc = "read"
    /\ LET c == cfgio.call[p]
           new == NewLines(c.op, c.key, conf)
       IN  IF (c.op = "remove" /\ conf = <<>>) \/ Len(new) > MaxFileLen
           THEN cfgio' = [cfgio EXCEPT !.call[p].pc = "unlock"]
           ELSE cfgio' = [cfgio EXCEPT !.call[p].pc = "write",
                                       !.call[p].lines = new]
    /\ UNCHANGED <<now, subs, peers, ipLock, proc, slots, prev, configs,
                   balance, ledger, referrals, refCfg, tx, rowLock, refRun,
                   conf, confLast, rowCap, provider, promo, usages, notes,
                   notify, outbox, env, codes, unlinked>>

\* tmp.writelines(lines): the temporary file fills up; tmp.flush() and
\* os.fsync() complete it.
ConfWriteTmp(p) ==
    /\ cfgio.call[p].pc = "write"
    /\ LET c == cfgio.call[p]
       IN  IF c.tmp = <<>> /\ Len(c.lines) > 1
           THEN cfgio' = [cfgio EXCEPT !.call[p].tmp =
                              SubSeq(c.lines, 1, Len(c.lines) \div 2)]
           ELSE cfgio' = [cfgio EXCEPT !.call[p].tmp = c.lines,
                                       !.call[p].pc = "replace"]
    /\ UNCHANGED <<now, subs, peers, ipLock, proc, slots, prev, configs,
                   balance, ledger, referrals, refCfg, tx, rowLock, refRun,
                   conf, confLast, rowCap, provider, promo, usages, notes,
                   notify, outbox, env, codes, unlinked>>

\* os.replace(temp_path, WG_CONFIG_PATH): the file becomes the temporary
\* file in one step.
_write_config_atomic(p) ==
    /\ cfgio.call[p].pc = "replace"
    /\ conf' = cfgio.call[p].tmp
    /\ cfgio' = [cfgio EXCEPT !.call[p].pc = "unlock"]
    /\ UNCHANGED <<now, subs, peers, ipLock, proc, slots, prev, configs,
                   balance, ledger, referrals, refCfg, tx, rowLock, refRun,
                   confLast, rowCap, provider, promo, usages, notes, notify,
                   outbox, env, codes, unlinked>>

\* finally: fcntl.flock(lock_file, LOCK_UN), and the function returns.
ConfUnlock(p) ==
    /\ cfgio.call[p].pc = "unlock"
    /\ cfgio' = [cfgio EXCEPT
                    !.lock = IF cfgio.lock = p THEN "free" ELSE @,
                    !.call[p] = IdleIo]
    /\ UNCHANGED <<now, subs, peers, ipLock, proc, slots, prev, configs,
                   balance, ledger, referrals, refCfg, tx, rowLock, refRun,
                   conf, confLast, rowCap, provider, promo, usages, notes,
                   notify, outbox, env, codes, unlinked>>

\* The standalone webhook process and the bot.
NextFile ==
    \E p \in {"web", "bot"} :
        \/ \E op \in {"add", "remove"}, k \in ConfKeys : ConfCall(p, op, k)
        \/ _wg_config_lock(p)
        \/ ConfRead(p)
        \/ ConfWriteTmp(p)
        \/ _write_config_atomic(p)
        \/ ConfUnlock(p)

SpecFile == InitConf /\ [][NextFile]_vars

(* ------------------------------- SpecIp ------------------------------- *)
\* generate_client_ip over the tables it can find: up to MaxSubs rows of
\* other users, paid by card, each with an address of the pool, switched on
\* or off, expired or not.  User 1 then pays by card.
OtherRow(k) ==
    [tg : {k + 1}, channel : {"YooKassa"}, don : {0},
     ip : FirstClientHost..LastClientHost, key : {k},
     expires : {0, TariffDays1m}, active : BOOLEAN,
     ev : {Ev("yookassa_payment_succeeded", <<k + 1, 1>>)},
     origin : {Ev("yookassa_payment_succeeded", <<k + 1, 1>>)}]

OtherRows ==
    {<<>>} \cup {<<a>> : a \in OtherRow(1)}
           \cup {<<a, b>> : a \in OtherRow(1), b \in OtherRow(2)}

InitIp ==
    /\ now = 0
    /\ subs \in OtherRows
    /\ peers = {subs[i].key : i \in {j \in DOMAIN subs : ActiveNow(subs[j])}}
    /\ ipLock = "free"
    /\ proc = [p \in Procs |-> IdleRec]
    /\ slots = MaxBusy
    /\ prev = NoPrev
    /\ configs = {subs[i].key : i \in DOMAIN subs}
    /\ balance = [u \in Users |-> NoRow]
    /\ ledger = <<>>
    /\ referrals = [u \in Users |-> 0]
    /\ refCfg = DefaultRefCfg
    /\ tx = <<>>
    /\ rowLock = <<>>
    /\ refRun = <<>>
    /\ conf = <<>>
    /\ confLast = NoConfOp
    /\ rowCap = MaxSubs + 1
    /\ provider = AllOneMonth
    /\ promo = NoPromo
    /\ usages = <<>>
    /\ notes = {}
    /\ notify = IdleNotify
    /\ cfgio = NoCalls
    /\ codes = {}
    /\ unlinked = [u \in Users |-> 0]
    /\ outbox = <<>>
    /\ env = DefaultEnv

\* The rows of user 1 are all YooKassa rows, so a payment that finds an
\* active one extends it and there is nothing to deactivate before a new
\* row is made.
NextIp ==
    \E p \in {"web"} :
        \/ \E wh \in {w \in Webhooks : PayerOf(w.pid) = 1 /\ w.tg = 1} :
               \E api \in ApiResponses(wh.pid) \cup {NoApi} :
                   CardReceive(p, wh, api)
        \/ CardGate(p)
        \/ \E fetched \in BOOLEAN : CardPick(p, fetched)
        \/ Extend(p)
        \/ DeactList(p)
        \/ AcquireIpLock(p)
        \/ ScanIp(p)
        \/ \E up \in BOOLEAN : AddPeer(p, up)
        \/ InsertSub(p)
        \/ Return(p)

SpecIp == InitIp /\ [][NextIp]_vars

(* ------------------------------ SpecBuy ------------------------------- *)
\* The bot's purchase of a tariff for points, points_tariff_callback, next
\* to pay_subscription_with_points.
\* A balance that always covers the price.
BalanceCoversCost(u) == PointsCost

\* SELECT balance FROM user_points: 0 when the user has no row.
get_user_points_balance(u) == Bal(u)

\* The user's active row that expires last, 0 if there is none.
get_latest_subscription_for_telegram(u) ==
    IF ActiveIdsOf(u) = {} THEN 0 ELSE First(ActiveIdsOf(u))

\* balance < points_cost ends the handler with an alert.  Otherwise the
\* latest row gives the base of the new expiry and the keys and address to
\* use again.
PointsReceive(p, u) ==
    /\ p = "bot"
    /\ RoomForRow(p)
    /\ RoomForDays(u, TariffDays1m)
    /\ Len(ledger) + Cardinality({x \in Txs : tx[x].pc # "idle"}) < MaxLedger
    /\ LET latest == get_latest_subscription_for_telegram(u)
           old == subs[latest].expires
           rec == [IdleRec EXCEPT !.kind = "points", !.tg = u]
       IN  IF get_user_points_balance(u) < PointsCost
           THEN Start(p, [rec EXCEPT !.pc = "done",
                                     !.res = "insufficient_points"])
           ELSE IF latest = 0
           THEN Start(p, [rec EXCEPT !.pc = "deact_list",
                                     !.exp = now + TariffDays1m])
           ELSE Start(p, [rec EXCEPT
                             !.pc = "deact_list", !.target = latest,
                             !.old = old, !.key = subs[latest].key,
                             !.ip = subs[latest].ip,
                             !.exp = (IF old > now THEN old ELSE now)
                                         + TariffDays1m])
    /\ UNCHANGED <<now, subs, peers, ipLock, slots, configs, balance, ledger,
                   referrals, refCfg, tx, rowLock, refRun, conf, confLast,
                   rowCap, provider, promo, usages, notes, notify, outbox,
                   env, cfgio, codes, unlinked>>

\* db.add_points(delta = -points_cost, allow_negative = False): a balance
\* that no longer covers the price leaves the new subscription unpaid.  The
\* config is sent when the keys are new.
PointsCharge(p) ==
    /\ proc[p].pc = "charge"
    /\ LET r == proc[p]
           new == Bal(r.tg) - PointsCost
       IN  /\ balance[r.tg] # NoRow => rowLock.points[r.tg] = 0
           /\ configs' = IF r.send THEN configs \cup {r.key} ELSE configs
           /\ IF new < 0
              THEN /\ UNCHANGED <<balance, ledger, notes, notify, outbox, env,
                                  cfgio, codes, unlinked>>
                   /\ Finish(p, "charge_failed")
              ELSE /\ balance' = [balance EXCEPT ![r.tg] = <<new>>]
                   /\ ledger' = Append(ledger,
                                       LedgerRow(r.tg, -PointsCost,
                                                 "pay_tariff_points", 0))
                   /\ Finish(p, "paid_with_points")
    /\ UNCHANGED <<now, subs, peers, ipLock, slots, prev, referrals, refCfg,
                   tx, rowLock, refRun, conf, confLast, rowCap, provider,
                   promo, usages, notes, notify, outbox, env, cfgio, codes,
                   unlinked>>

\* db.add_points fails on the database (a statement raises): it rolls back
\* and returns db_error; the handler logs, tells the user to contact support
\* and goes on to send the config of the new subscription.
PointsChargeError(p) ==
    /\ proc[p].pc = "charge"
    /\ configs' = IF proc[p].send THEN configs \cup {proc[p].key} ELSE configs
    /\ Finish(p, "charge_failed")
    /\ UNCHANGED <<now, subs, peers, ipLock, slots, prev, balance, ledger,
                   referrals, refCfg, tx, rowLock, refRun, conf, confLast,
                   rowCap, provider, promo, usages, notes, notify, outbox,
                   env, cfgio, codes, unlinked>>

\* What a user holds at the start: no row, nothing, or the price of a month
\* credited by the admin.
StartBalances == {NoRow, <<0>>, <<PointsCost>>}

RECURSIVE CreditRows(_, _)
CreditRows(bal, u) ==
    IF u > NumUsers THEN <<>>
    ELSE (IF bal[u] # NoRow /\ bal[u][1] > 0
          THEN <<LedgerRow(u, bal[u][1], "admin", 0)>> ELSE <<>>)
             \o CreditRows(bal, u + 1)

\* User 1 has a card subscription, user 2 has none.
InitBuy ==
    /\ now = 0
    /\ subs = <<[tg |-> 1, channel |-> "YooKassa", don |-> 0,
                 ip |-> FirstClientHost, key |-> 1, expires |-> TariffDays1m,
                 active |-> TRUE,
                 ev |-> Ev("yookassa_payment_succeeded", <<1, 1>>),
                 origin |-> Ev("yookassa_payment_succeeded", <<1, 1>>)]>>
    /\ peers = {1}
    /\ ipLock = "free"
    /\ proc = [p \in Procs |-> IdleRec]
    /\ slots = MaxBusy
    /\ prev = NoPrev
    /\ configs = {1}
    /\ balance \in [Users -> StartBalances]
    /\ ledger = CreditRows(balance, 1)
    /\ referrals = [u \in Users |-> 0]
    /\ refCfg = <<>>
    /\ tx = [t \in Txs |-> IdleTx]
    /\ rowLock = [points |-> [u \in Users |-> 0], sub |-> <<0, 0>>]
    /\ refRun = <<>>
    /\ conf = <<>>
    /\ confLast = NoConfOp
    /\ rowCap = MaxSubs
    /\ provider = AllOneMonth
    /\ promo = NoPromo
    /\ usages = <<>>
    /\ notes = {}
    /\ notify = IdleNotify
    /\ cfgio = NoCalls
    /\ codes = {}
    /\ unlinked = [u \in Users |-> 0]
    /\ outbox = <<>>
    /\ env = DefaultEnv

NextBuy ==
    \/ Tick
    \/ \E t \in Txs :
        \/ \E u \in Users : PayBegin(t, u)
        \/ PaySubSelect(t)
        \/ PayPointsSelect(t)
        \/ Upsert(t)
        \/ PayCommit(t)
        \/ TxReturn(t)
    \/ \E p \in {"bot"} :
        \/ \E u \in Users : PointsReceive(p, u)
        \/ DeactList(p)
        \/ DeactDb(p)
        \/ \E up \in BOOLEAN : DeactWg(p, up)
        \/ AcquireIpLock(p)
        \/ ScanIp(p)
        \/ \E up \in BOOLEAN : AddPeer(p, up)
        \/ InsertSub(p)
        \/ PointsCharge(p)
        \/ PointsChargeError(p)
        \/ Return(p)

SpecBuy == InitBuy /\ [][NextBuy]_vars

(* ----------------------------- SpecPromo ------------------------------ *)
\* apply_promo_code_to_latest_subscription and
\* apply_promo_code_without_subscription as READ COMMITTED transactions on
\* one promo code.  SELECT ... FOR UPDATE waits while another transaction
\* holds the row and then reads the committed row; the writes of a
\* transaction are seen by the others from its commit on.
\* had : the usages of the user that were committed when the call began
IdlePromoTx ==
    [pc |-> "idle", kind |-> "none", tg |-> 0, had |-> 0, sub |-> 0,
     res |-> "none"]

\* The call begins: the code is not empty.
PromoBegin(t, u, kind) ==
    /\ tx[t].pc = "idle"
    /\ GotoTx(t, [IdlePromoTx EXCEPT !.pc = "select", !.kind = kind,
                                     !.tg = u, !.had = usages[u]])
    /\ UNCHANGED <<now, subs, peers, ipLock, proc, slots, prev, configs,
                   balance, ledger, referrals, refCfg, rowLock, refRun, conf,
                   confLast, rowCap, provider, promo, usages, notes, notify,
                   outbox, env, cfgio, codes, unlinked>>

\* The same SELECT without FOR UPDATE: the row is read, not locked.
PromoSelectUnlocked(t) ==
    /\ tx[t].pc = "select"
    /\ LET u == tx[t].tg
           latest == get_active_subscriptions_for_telegram(u)
           out(res) == GotoTx(t, [tx[t] EXCEPT !.pc = "done", !.res = res])
       IN  /\ UNCHANGED promo
           /\ IF ~promo.active THEN out("not_found")
              ELSE IF promo.max_uses # 0 /\ promo.used >= promo.max_uses
              THEN out("no_uses_left")
              ELSE IF usages[u] >= promo.limit
              THEN out("per_user_limit_reached")
              ELSE IF tx[t].kind = "latest" /\ latest = <<>>
              THEN out("no_active_subscription")
              ELSE GotoTx(t, [tx[t] EXCEPT
                                 !.pc = "commit",
                                 !.sub = IF tx[t].kind = "latest"
                                         THEN latest[1] ELSE 0])
    /\ UNCHANGED <<now, subs, peers, ipLock, proc, slots, prev, configs,
                   balance, ledger, referrals, refCfg, rowLock, refRun, conf,
                   confLast, rowCap, provider, usages, notes, notify, outbox,
                   env, cfgio, codes, unlinked>>

\* SELECT * FROM promo_codes WHERE code AND is_active ... FOR UPDATE, then
\* the checks in the code's order: max_uses, the user's usages, and for
\* the latest-subscription variant the user's latest active row.  A refusal
\* returns, and get_conn rolls back, which drops the lock.
PromoSelect(t) ==
    /\ tx[t].pc = "select"
    /\ promo.lock \in {0, t}
    /\ LET u == tx[t].tg
           latest == get_active_subscriptions_for_telegram(u)
           out(res) == GotoTx(t, [tx[t] EXCEPT !.pc = "done", !.res = res])
       IN  IF ~promo.active THEN out("not_found") /\ UNCHANGED promo
           ELSE IF promo.max_uses # 0 /\ promo.used >= promo.max_uses
           THEN out("no_uses_left") /\ UNCHANGED promo
           ELSE IF usages[u] >= promo.limit
           THEN out("per_user_limit_reached") /\ UNCHANGED promo
           ELSE IF tx[t].kind = "latest" /\ latest = <<>>
           THEN out("no_active_subscription") /\ UNCHANGED promo
           ELSE /\ promo' = [promo EXCEPT !.lock = t]
                /\ GotoTx(t, [tx[t] EXCEPT
                                 !.pc = "commit",
                                 !.sub = IF tx[t].kind = "latest"
                                         THEN latest[1] ELSE 0])
    /\ UNCHANGED <<now, subs, peers, ipLock, proc, slots, prev, configs,
                   balance, ledger, referrals, refCfg, rowLock, refRun, conf,
                   confLast, rowCap, provider, usages, notes, notify, outbox,
                   env, cfgio, codes, unlinked>>

\* UPDATE vpn_subscriptions SET expires_at = GREATEST(expires_at, NOW()) +
\* extra_days (latest-subscription variant only); INSERT INTO
\* promo_code_usages; UPDATE promo_codes SET used_count = used_count + 1,
\* is_active = FALSE when max_uses is reached; conn.commit().
PromoCommit(t) ==
    /\ tx[t].pc = "commit"
    /\ LET i == tx[t].sub
           old == subs[i].expires
       IN  subs' = IF i = 0 THEN subs
                   ELSE [subs EXCEPT ![i].expires =
                            (IF old > now THEN old ELSE now) + PromoDays]
    /\ usages' = [usages EXCEPT ![tx[t].tg] = @ + 1]
    /\ unlinked' = IF tx[t].sub = 0
                   THEN [unlinked EXCEPT ![tx[t].tg] = @ + 1]
                   ELSE unlinked
    /\ promo' = [promo EXCEPT
                    !.used = @ + 1,
                    !.active = IF promo.max_uses # 0
                                    /\ promo.used + 1 >= promo.max_uses
                               THEN FALSE ELSE @,
                    !.lock = IF @ = t THEN 0 ELSE @]
    /\ GotoTx(t, [tx[t] EXCEPT !.pc = "done", !.res = "ok"])
    /\ UNCHANGED <<now, peers, ipLock, proc, slots, prev, configs, balance,
                   ledger, referrals, refCfg, rowLock, refRun, conf, confLast,
                   rowCap, provider, notes, notify, outbox, env, cfgio, codes>>

\* The call returns its result.
PromoReturn(t) ==
    /\ tx[t].pc = "done"
    /\ GotoTx(t, IdlePromoTx)
    /\ UNCHANGED <<now, subs, peers, ipLock, proc, slots, prev, configs,
                   balance, ledger, referrals, refCfg, rowLock, refRun, conf,
                   confLast, rowCap, provider, promo, usages, notes, notify,
                   outbox, env, cfgio, codes, unlinked>>

\* User 1 has a card subscription, user 2 has none.  The code is active and
\* unused; max_uses 0 stands for NULL, no global limit.
InitPromo ==
    /\ now = 0
    /\ subs = <<[tg |-> 1, channel |-> "YooKassa", don |-> 0,
                 ip |-> FirstClientHost, key |-> 1, expires |-> TariffDays1m,
                 active |-> TRUE,
                 ev |-> Ev("yookassa_payment_succeeded", <<1, 1>>),
                 origin |-> Ev("yookassa_payment_succeeded", <<1, 1>>)]>>
    /\ peers = {1}
    /\ ipLock = "free"
    /\ proc = [p \in Procs |-> IdleRec]
    /\ slots = MaxBusy
    /\ prev = NoPrev
    /\ configs = {1}
    /\ balance = [u \in Users |-> NoRow]
    /\ ledger = <<>>
    /\ referrals = [u \in Users |-> 0]
    /\ refCfg = <<>>
    /\ tx = [t \in Txs |-> IdlePromoTx]
    /\ rowLock = <<>>
    /\ refRun = <<>>
    /\ conf = <<>>
    /\ confLast = NoConfOp
    /\ rowCap = MaxSubs
    /\ provider = AllOneMonth
    /\ promo \in [max_uses : 0..MaxPromoUses, limit : 1..MaxPerUser,
                  used : {0}, active : {TRUE}, lock : {0}]
    /\ usages = [u \in Users |-> 0]
    /\ notes = {}
    /\ notify = IdleNotify
    /\ cfgio = NoCalls
    /\ codes = {}
    /\ unlinked = [u \in Users |-> 0]
    /\ outbox = <<>>
    /\ env = DefaultEnv

NextPromo ==
    \/ Tick
    \/ \E t \in Txs :
        \/ \E u \in Users, kind \in {"latest", "floating"} :
               PromoBegin(t, u, kind)
        \/ PromoSelect(t)
        \/ PromoCommit(t)
        \/ PromoReturn(t)

SpecPromo == InitPromo /\ [][NextPromo]_vars

(* ----------------- refunds: Decimal arithmetic of the handler --------- *)
\* Python's Decimal keeps DecimalPrec significant digits and rounds to the
\* nearest, ties to even.  A number is a sequence of decimal digits, most
\* significant first, with a known count of digits after the point.
Last(seq) == seq[Len(seq)]
Front(seq) == SubSeq(seq, 1, Len(seq) - 1)

\* The digits plus one unit in the last place.
RECURSIVE Inc(_)
Inc(seq) ==
    IF seq = <<>> THEN <<1>>
    ELSE IF Last(seq) < 9 THEN Front(seq) \o <<Last(seq) + 1>>
    ELSE Inc(Front(seq)) \o <<0>>

\* Long division of rem / t, rem < t: digits after the point are appended
\* to acc until DecimalPrec significant digits are there or nothing is left.
RECURSIVE DivDigits(_, _, _, _)
DivDigits(rem, t, acc, sig) ==
    IF rem = 0 \/ sig = DecimalPrec THEN [digits |-> acc, rem |-> rem]
    ELSE LET d == (rem * 10) \div t
         IN  DivDigits((rem * 10) % t, t, Append(acc, d),
                       IF sig > 0 \/ d > 0 THEN sig + 1 ELSE 0)

\* refund_amount / total_amount for 0 < refund < total: <<0>> and the
\* digits after the point, rounded.
DecimalRatio(refund, total) ==
    LET q == DivDigits(refund, total, <<0>>, 0)
        up == \/ 2 * q.rem > total
              \/ 2 * q.rem = total /\ Last(q.digits) % 2 = 1
    IN  IF up THEN Inc(q.digits) ELSE q.digits

RECURSIVE DigitsOf(_)
DigitsOf(n) == IF n = 0 THEN <<>> ELSE DigitsOf(n \div 10) \o <<n % 10>>

\* The digits of seq * m + carry.
RECURSIVE MulDigits(_, _, _)
MulDigits(seq, m, carry) ==
    IF seq = <<>> THEN DigitsOf(carry)
    ELSE LET v == Last(seq) * m + carry
         IN  MulDigits(Front(seq), m, v \div 10) \o <<v % 10>>

RECURSIVE StripZeros(_)
StripZeros(seq) ==
    IF seq # <<>> /\ Head(seq) = 0 THEN StripZeros(Tail(seq)) ELSE seq

\* seq rounded to DecimalPrec significant digits, the digits dropped
\* replaced by zeros.
RoundPrec(seq) ==
    LET s == StripZeros(seq)
        keep == SubSeq(s, 1, DecimalPrec)
        drop == SubSeq(s, DecimalPrec + 1, Len(s))
        zeros == [i \in 1..Len(drop) |-> 0]
        more == \E i \in 2..Len(drop) : drop[i] > 0
        up == \/ drop[1] > 5
              \/ drop[1] = 5 /\ more
              \/ drop[1] = 5 /\ ~more /\ Last(keep) % 2 = 1
    IN  IF Len(s) <= DecimalPrec THEN s
        ELSE (IF up THEN Inc(keep) ELSE keep) \o zeros

RECURSIVE NatOf(_)
NatOf(seq) == IF seq = <<>> THEN 0 ELSE NatOf(Front(seq)) * 10 + Last(seq)

\* int(days_for_tariff * ratio): the product rounded to the precision, then
\* cut to its integer part.
IntOfProduct(days, ratio) ==
    LET p == RoundPrec(MulDigits(ratio, days, 0))
        frac == Len(ratio) - 1
    IN  NatOf(SubSeq(p, 1, Len(p) - frac))

\* The days of one month, whatever was paid and refunded.
RevertOneMonth(days, refund, total) == TariffDays1m

\* days_to_revert: the whole tariff when an amount is missing, otherwise
\* the refunded share of its days, at least 1.
DaysToRevert(days, refund, total) ==
    IF total <= 0 \/ refund <= 0 THEN days
    ELSE LET x == IF refund >= total THEN days
                  ELSE IntOfProduct(days, DecimalRatio(refund, total))
         IN  IF x <= 0 THEN 1 ELSE x

(* -------------- refunds: handle_yookassa_webhook, refund.succeeded ----- *)
\* The ids of the provider's refunds.
RefundIds == {0} \X (1..NumRefunds)

\* Amounts in roubles; 0 stands for a body without an amount.
RefundAmounts == {0, 30, 90, 270}
TARIFF_AMOUNTS(code) == IF code = "1m" THEN 100 ELSE 270

\* A refund.succeeded body: the refund's id, the payment and the amount.
RefundHooks == [rid : RefundIds, pid : PaymentIds, amount : RefundAmounts]

\* The newest row whose last_event_name is ev, 0 if there is none.
get_subscription_by_event(ev) ==
    IF \E i \in Ids : subs[i].ev = ev
    THEN CHOOSE i \in Ids :
             subs[i].ev = ev /\ \A j \in Ids : subs[j].ev = ev => j <= i
    ELSE 0

\* The refund was applied before, or the original payment cannot be
\* fetched: nothing is done.  Otherwise the handler goes on with the
\* payment's tariff code.
RefundReceive(p, rf, fetched) ==
    /\ p = "web"
    /\ LET rec == [IdleRec EXCEPT !.kind = "refund", !.id = rf.rid,
                                  !.pay = rf.pid, !.amount = rf.amount,
                                  !.tg = PayerOf(rf.pid),
                                  !.gate = EventOf("refund", rf.rid)]
       IN  IF subscription_exists_by_event(rec.gate)
           THEN Start(p, [rec EXCEPT !.pc = "done",
                                     !.res = "refund_already_processed"])
           ELSE IF ~fetched
           THEN Start(p, [rec EXCEPT !.pc = "done",
                                     !.res = "no_original_payment"])
           ELSE Start(p, [rec EXCEPT !.pc = "refund_apply",
                                     !.tariff = provider[rf.pid]])
    /\ UNCHANGED <<now, subs, peers, ipLock, slots, configs, balance, ledger,
                   referrals, refCfg, tx, rowLock, refRun, conf, confLast,
                   rowCap, provider, promo, usages, notes, notify, outbox,
                   env, cfgio, codes, unlinked>>

\* The row of the payment, or else the user's active YooKassa row; the days
\* to take back; the row is deactivated when nothing is left of it and
\* shortened otherwise.
RefundApply(p) ==
    /\ proc[p].pc = "refund_apply"
    /\ LET r == proc[p]
           byEvent == get_subscription_by_event(EventOf("card", r.pay))
           sub == IF byEvent # 0 THEN byEvent
                  ELSE FirstYooKassa(
                           get_active_subscriptions_for_telegram(r.tg))
           old == subs[sub].expires
           days == DaysToRevert(TARIFF_DAYS(r.tariff), r.amount,
                                TARIFF_AMOUNTS(r.tariff))
           new == old - days
           found == [r EXCEPT !.target = sub, !.old = old, !.exp = new,
                              !.key = subs[sub].key]
       IN  IF sub = 0
           THEN /\ Finish(p, "no_subscription")
                /\ UNCHANGED subs
           ELSE IF new <= now
           THEN /\ subs' = deactivate_subscription_by_id(
                               sub, EventOf("refund", r.id))
                /\ IF subs[sub].active
                   THEN Goto(p, [found EXCEPT !.pc = "refund_wg",
                                              !.mutated = TRUE])
                   ELSE Goto(p, [found EXCEPT !.pc = "done",
                                              !.res = "refund_row_inactive"])
           ELSE /\ subs' = update_subscription_expiration(
                               sub, new, EventOf("refund", r.id))
                /\ Goto(p, [found EXCEPT !.pc = "done", !.mutated = TRUE,
                                         !.res = "refund_shortened"])
    /\ UNCHANGED <<now, peers, ipLock, slots, prev, configs, balance, ledger,
                   referrals, refCfg, tx, rowLock, refRun, conf, confLast,
                   rowCap, provider, promo, usages, notes, notify, outbox,
                   env, cfgio, codes, unlinked>>

\* wg.remove_peer(pub_key); a failure is logged and the handler goes on.
RefundWg(p, up) ==
    /\ proc[p].pc = "refund_wg"
    /\ peers' = IF up THEN peers \ {proc[p].key} ELSE peers
    /\ Finish(p, IF up THEN "refund_deactivated" ELSE "refund_peer_left")
    /\ UNCHANGED <<now, subs, ipLock, slots, prev, configs, balance, ledger,
                   referrals, refCfg, tx, rowLock, refRun, conf, confLast,
                   rowCap, provider, promo, usages, notes, notify, outbox,
                   env, cfgio, codes, unlinked>>

(* ----------------------------- SpecRefund ----------------------------- *)
\* The first payment of user 1 is for three months.  Handlers run one at a
\* time, and all of them for user 1.
InitRefund ==
    /\ InitData
    /\ provider = [pid \in PaymentIds |->
                      IF pid = <<1, 1>> THEN "3m" ELSE "1m"]
    /\ refCfg = DefaultRefCfg
    /\ slots = MaxBusy
    /\ referrals = [u \in Users |-> 0]

\* Every row is a YooKassa row here, so a payment that finds an active row
\* extends it and deactivate_existing_active_subscriptions never has a row
\* to deactivate.
NextRefund ==
    \/ Tick
    \/ \E p \in {"web"} :
        \/ \E wh \in {w \in Webhooks : PayerOf(w.pid) = 1 /\ w.tg = 1} :
               \E api \in ApiResponses(wh.pid) \cup {NoApi} :
                   CardReceive(p, wh, api)
        \/ CardGate(p)
        \/ \E fetched \in BOOLEAN : CardPick(p, fetched)
        \/ Extend(p)
        \/ \E rf \in {h \in RefundHooks : PayerOf(h.pid) = 1} :
               \E fetched \in BOOLEAN : RefundReceive(p, rf, fetched)
        \/ RefundApply(p)
        \/ \E up \in BOOLEAN : RefundWg(p, up)
        \/ DeactList(p)
        \/ AcquireIpLock(p)
        \/ ScanIp(p)
        \/ \E up \in BOOLEAN : AddPeer(p, up)
        \/ InsertSub(p)
        \/ Return(p)

SpecRefund == InitRefund /\ [][NextRefund]_vars

(* ----------------------------- SpecNotify ----------------------------- *)
\* auto_notify_expiring_subscriptions: the reminder worker of the bot
\* process.  A row expires at 00:00 of day expires; a pass of the worker
\* runs at hour h of day now, so the row has 24 * (expires - now) - h hours
\* left.

\* The two arguments of get_subscriptions_expiring_in_window for a kind.
ReminderWindow(kind) ==
    CASE kind = "expires_3d" -> <<60, 73>>
      [] kind = "expires_1d" -> <<12, 25>>
      [] kind = "expires_1h" -> <<1, 2>>

\* active = TRUE AND expires_at > NOW() + from_hours
\*               AND expires_at <= NOW() + to_hours
get_subscriptions_expiring_in_window(from_hours, to_hours, h) ==
    {i \in Ids :
        /\ subs[i].active
        /\ 24 * (subs[i].expires - now) - h > from_hours
        /\ 24 * (subs[i].expires - now) - h <= to_hours}

\* A marker of that kind for the row, or for the user and the expiry time.
has_subscription_notification(id, kind, tg, expires_at) ==
    \E n \in notes :
        /\ n.kind = kind
        /\ n.id = id \/ (n.tg = tg /\ n.expires = expires_at)

\* INSERT ... ON CONFLICT DO NOTHING, under the unique indexes on
\* (subscription_id, notification_type) and on (telegram_user_id,
\* notification_type, expires_at): the table afterwards.
create_subscription_notification(id, kind, tg, expires_at) ==
    IF \E n \in notes :
           /\ n.kind = kind
           /\ n.id = id \/ (n.tg = tg /\ n.expires = expires_at)
    THEN notes
    ELSE notes \cup {[id |-> id, kind |-> kind, tg |-> tg,
                      expires |-> expires_at]}

\* One iteration of a loop of the pass, up to the await: the hour is one at
\* which the worker sends (9 <= hour <= 22), the row is in the window of the
\* kind and has no marker, and the message is delivered.  (A send that
\* raises leaves everything as it is and the loop goes on.)
NotifySend(kind, id, h) ==
    /\ notify.pc = "idle"
    /\ h \in 9..22
    /\ Len(outbox) < MaxReminders
    /\ id \in get_subscriptions_expiring_in_window(ReminderWindow(kind)[1],
                                                   ReminderWindow(kind)[2], h)
    /\ ~has_subscription_notification(id, kind, subs[id].tg,
                                      subs[id].expires)
    /\ outbox' = Append(outbox, [id |-> id, kind |-> kind])
    /\ notify' = [pc |-> "sent", id |-> id, kind |-> kind]
    /\ UNCHANGED <<now, subs, peers, ipLock, proc, slots, prev, configs,
                   balance, ledger, referrals, refCfg, tx, rowLock, refRun,
                   conf, confLast, rowCap, provider, promo, usages, notes,
                   env, cfgio, codes, unlinked>>

\* After send_message has returned: the marker is written, or, stored =
\* FALSE, it is not: the insert raises and the except branch logs it, or
\* the process is stopped before the call and is started again.
NotifyRecord(stored) ==
    /\ notify.pc = "sent"
    /\ notes' = IF stored
                THEN create_subscription_notification(
                         notify.id, notify.kind, subs[notify.id].tg,
                         subs[notify.id].expires)
                ELSE notes
    /\ notify' = IdleNotify
    /\ UNCHANGED <<now, subs, peers, ipLock, proc, slots, prev, configs,
                   balance, ledger, referrals, refCfg, tx, rowLock, refRun,
                   conf, confLast, rowCap, provider, promo, usages, outbox,
                   env, cfgio, codes, unlinked>>

\* A day passes.
Day ==
    /\ now < MaxNoticeDays
    /\ now' = now + 1
    /\ UNCHANGED <<subs, peers, ipLock, proc, slots, prev, configs, balance,
                   ledger, referrals, refCfg, tx, rowLock, refRun, conf,
                   confLast, rowCap, provider, promo, usages, notes, notify,
                   outbox, env, cfgio, codes, unlinked>>

\* Row i is the active row of user i and expires within MaxNoticeDays days.
InitNotify ==
    /\ now = 0
    /\ \E n \in 1..NumUsers :
           subs \in [1..n -> [tg : Users, channel : {"YooKassa"}, don : {0},
                              ip : PoolHosts, key : 1..NumUsers,
                              expires : 1..MaxNoticeDays, active : {TRUE},
                              ev : {Ev("yookassa_payment_succeeded",
                                       <<u, 1>>) : u \in Users},
                              origin : {Ev("yookassa_payment_succeeded",
                                           <<u, 1>>) : u \in Users}]]
    /\ \A i \in DOMAIN subs :
           /\ subs[i].tg = i
           /\ subs[i].ev = Ev("yookassa_payment_succeeded", <<i, 1>>)
           /\ subs[i].origin = subs[i].ev
           /\ subs[i].key = i
           /\ subs[i].ip = ServerHost + i
    /\ peers = {subs[i].key : i \in DOMAIN subs}
    /\ ipLock = "free"
    /\ proc = [p \in Procs |-> IdleRec]
    /\ slots = MaxBusy
    /\ prev = NoPrev
    /\ configs = {subs[i].key : i \in DOMAIN subs}
    /\ balance = [u \in Users |-> NoRow]
    /\ ledger = <<>>
    /\ referrals = [u \in Users |-> 0]
    /\ refCfg = DefaultRefCfg
    /\ tx = <<>>
    /\ rowLock = <<>>
    /\ refRun = <<>>
    /\ conf = <<>>
    /\ confLast = NoConfOp
    /\ rowCap = MaxSubs
    /\ provider = AllOneMonth
    /\ promo = NoPromo
    /\ usages = <<>>
    /\ notes = {}
    /\ notify = IdleNotify
    /\ cfgio = NoCalls
    /\ codes = {}
    /\ unlinked = [u \in Users |-> 0]
    /\ outbox = <<>>
    /\ env = DefaultEnv

NextNotify ==
    \/ Day
    \/ \E kind \in {"expires_3d", "expires_1d", "expires_1h"}, id \in Ids,
          h \in 9..22 : NotifySend(kind, id, h)
    \/ \E stored \in BOOLEAN : NotifyRecord(stored)

SpecNotify == InitNotify /\ [][NextNotify]_vars

(* ------------------------------ SpecSweep ----------------------------- *)
\* auto_deactivate_expired_subscriptions alone, over the rows of InitNotify
\* as the days pass.
NextSweep ==
    \/ Day
    \/ Sweep("bot")
    \/ DeactDb("bot")
    \/ \E up \in BOOLEAN : DeactWg("bot", up)
    \/ Return("bot")

\* The loop of the sweeper runs for ever, every 60 seconds, and each of its
\* calls returns; and the interface is not down for ever: a removal that is
\* tried again and again succeeds at some time.
FairSweep ==
    /\ WF_vars(Sweep("bot"))
    /\ WF_vars(DeactDb("bot"))
    /\ WF_vars(\E up \in BOOLEAN : DeactWg("bot", up))
    /\ SF_vars(DeactWg("bot", TRUE))
    /\ WF_vars(Return("bot"))

SpecSweep == InitNotify /\ [][NextSweep]_vars /\ FairSweep

(* ------------------------------ SpecHook ------------------------------ *)
\* handle_heleket_webhook alone, under every setting of the payment key
\* and of the two switches, for requests from any address with any sign
\* field: none, the hash of the body with key 1 or with key 2, or the hash
\* of another payment's body.
HookRequests(uuid) ==
    [remote : {TrustedIp, OtherIp},
     realip : {"", TrustedIp, OtherIp},
     fwd : {<<>>, <<TrustedIp>>, <<OtherIp, TrustedIp>>},
     sign : {NoSign, Sign(uuid, 1), Sign(uuid, 2)}
                \cup {Sign(other, 1) : other \in CryptoIds \ {uuid}}]

\* User 1 has a card subscription, user 2 has none.
InitHook ==
    /\ now = 0
    /\ subs = <<[tg |-> 1, channel |-> "YooKassa", don |-> 0,
                 ip |-> FirstClientHost, key |-> 1, expires |-> TariffDays1m,
                 active |-> TRUE,
                 ev |-> Ev("yookassa_payment_succeeded", <<1, 1>>),
                 origin |-> Ev("yookassa_payment_succeeded", <<1, 1>>)]>>
    /\ peers = {1}
    /\ ipLock = "free"
    /\ proc = [p \in Procs |-> IdleRec]
    /\ slots = MaxBusy
    /\ prev = NoPrev
    /\ configs = {1}
    /\ balance = [u \in Users |-> NoRow]
    /\ ledger = <<>>
    /\ referrals = [u \in Users |-> 0]
    /\ refCfg = DefaultRefCfg
    /\ tx = <<>>
    /\ rowLock = <<>>
    /\ refRun = <<>>
    /\ conf = <<>>
    /\ confLast = NoConfOp
    /\ rowCap = MaxSubs + 1
    /\ provider = AllOneMonth
    /\ promo = NoPromo
    /\ usages = <<>>
    /\ notes = {}
    /\ notify = IdleNotify
    /\ cfgio = NoCalls
    /\ codes = {}
    /\ unlinked = [u \in Users |-> 0]
    /\ outbox = <<>>
    /\ env \in [key : {0, 1}, noIpCheck : BOOLEAN, noSigCheck : BOOLEAN]

\* The only active row of user 1 is extended, and user 2 has no row, so
\* there is never a row to deactivate before a new one is made.
NextHook ==
    \E p \in {"bot"} :
        \/ \E uuid \in CryptoIds :
               \E req \in HookRequests(uuid) : CryptoReceive(p, uuid, req)
        \/ CryptoGate(p)
        \/ CryptoPick(p)
        \/ Extend(p)
        \/ DeactList(p)
        \/ AcquireIpLock(p)
        \/ ScanIp(p)
        \/ \E up \in BOOLEAN : AddPeer(p, up)
        \/ InsertSub(p)
        \/ Return(p)

SpecHook == InitHook /\ [][NextHook]_vars

(* ------------------------------ SpecRace ------------------------------ *)
\* The card webhook in both processes that serve it: create_app runs in
\* yookassa_webhook_runner's __main__ and inside the bot's main, so two
\* deliveries of one event can be in progress at the same time.
NextRace ==
    \E p \in {"web", "bot"} :
        \/ \E wh \in Webhooks :
               \E api \in ApiResponses(wh.pid) \cup {NoApi} :
                   CardStart(p, wh, api)
        \/ CardGate(p)
        \/ \E fetched \in BOOLEAN : CardPick(p, fetched)
        \/ Extend(p)
        \/ DeactList(p)
        \/ DeactDb(p)
        \/ \E up \in BOOLEAN : DeactWg(p, up)
        \/ AcquireIpLock(p)
        \/ ScanIp(p)
        \/ \E up \in BOOLEAN : AddPeer(p, up)
        \/ InsertSub(p)
        \/ Return(p)

SpecRace == InitExtend /\ [][NextRace]_vars

(* ----------------------------- SpecCreate ----------------------------- *)
\* Every handler that creates a subscription: the card and crypto webhooks,
\* the legacy donation handler, the purchase with points, the admin's manual
\* grant, the referral trial and the promo code without a subscription.

\* SELECT 1 ... WHERE last_event_name = 'referral_free_trial_7d'
has_referral_trial_subscription(u) ==
    \E i \in Ids : subs[i].tg = u /\ subs[i].ev = EventOf("trial", NoId)

\* A user with a subscription in force, or one who had the trial before,
\* gets nothing; otherwise seven days with a new peer.
try_give_referral_trial_7d(p, u) ==
    /\ p = "bot"
    /\ RoomForRow(p)
    /\ LET rec == [IdleRec EXCEPT !.kind = "trial", !.tg = u]
       IN  IF \/ get_latest_subscription_for_telegram(u) # 0
              \/ has_referral_trial_subscription(u)
           THEN Start(p, [rec EXCEPT !.pc = "done", !.res = "skipped"])
           ELSE Start(p, [rec EXCEPT !.pc = "deact_list",
                                     !.exp = now + TrialDays])
    /\ UNCHANGED <<now, subs, peers, ipLock, slots, configs, balance, ledger,
                   referrals, refCfg, tx, rowLock, refRun, conf, confLast,
                   rowCap, provider, promo, usages, notes, notify, outbox,
                   env, cfgio, codes, unlinked>>

\* /add_sub with period 1m: the user's active rows are deactivated and a
\* month is granted with a new peer.
admin_add_sub_choose_period(p, u) ==
    /\ p = "bot"
    /\ RoomForRow(p)
    /\ Start(p, [IdleRec EXCEPT !.kind = "admin_add", !.tg = u,
                                !.pc = "deact_list",
                                !.exp = now + TariffDays1m])
    /\ UNCHANGED <<now, subs, peers, ipLock, slots, configs, balance, ledger,
                   referrals, refCfg, tx, rowLock, refRun, conf, confLast,
                   rowCap, provider, promo, usages, notes, notify, outbox,
                   env, cfgio, codes, unlinked>>

\* promo_code_apply for a user without an active subscription:
\* apply_promo_code_without_subscription checks the code and commits the
\* usage row (subscription_id NULL) and used_count + 1; then the keys and
\* address of the user's latest row, if there is one, are taken for the new
\* subscription; otherwise a new peer is made.
promo_code_apply(p, u) ==
    /\ p = "bot"
    /\ RoomForRow(p)
    /\ get_active_subscriptions_for_telegram(u) = <<>>
    /\ promo.active
    /\ promo.lock = 0
    /\ promo.max_uses = 0 \/ promo.used < promo.max_uses
    /\ usages[u] < promo.limit
    /\ usages' = [usages EXCEPT ![u] = @ + 1]
    /\ unlinked' = [unlinked EXCEPT ![u] = @ + 1]
    /\ promo' = [promo EXCEPT
                    !.used = @ + 1,
                    !.active = IF promo.max_uses # 0
                                    /\ promo.used + 1 >= promo.max_uses
                               THEN FALSE ELSE @]
    /\ LET latest == get_latest_subscription_for_telegram(u)
           rec == [IdleRec EXCEPT !.kind = "promo", !.tg = u,
                                  !.pc = "deact_list",
                                  !.exp = now + PromoDays]
       IN  IF latest = 0
           THEN Start(p, rec)
           ELSE Start(p, [rec EXCEPT !.target = latest,
                                     !.key = subs[latest].key,
                                     !.ip = subs[latest].ip])
    /\ UNCHANGED <<now, subs, peers, ipLock, slots, configs, balance, ledger,
                   referrals, refCfg, tx, rowLock, refRun, conf, confLast,
                   rowCap, provider, notes, notify, outbox, env, cfgio,
                   codes>>

\* db.link_promo_usage_to_subscription(usage_id, new_sub_id): the usage row
\* gets the id of the new row.  An exception is logged and the handler goes
\* on as if the link was made.
link_promo_usage_to_subscription(p, ok) ==
    /\ proc[p].pc = "link"
    /\ unlinked' = IF ok THEN [unlinked EXCEPT ![proc[p].tg] = @ - 1]
                   ELSE unlinked
    /\ Finish(p, "created")
    /\ UNCHANGED <<now, subs, peers, ipLock, slots, prev, configs, balance,
                   ledger, referrals, refCfg, tx, rowLock, refRun, conf,
                   confLast, rowCap, provider, promo, usages, notes, notify,
                   outbox, env, cfgio, codes>>

\* db.insert_subscription raises: its `finally` releases the lock, nothing
\* is committed, and every handler gives up before it builds the config.
\* The peer stays in the interface without a row; MaxOrphans bounds how many
\* such peers a behaviour leaves.
InsertFail(p) ==
    /\ proc[p].pc = "insert"
    /\ Cardinality(peers \ {subs[i].key : i \in Ids}) <= MaxOrphans
    /\ ipLock' = Released(p)
    /\ Finish(p, "db_error")
    /\ UNCHANGED <<now, subs, peers, slots, prev, configs, balance, ledger,
                   referrals, refCfg, tx, rowLock, refRun, conf, confLast,
                   rowCap, provider, promo, usages, notes, notify, outbox,
                   env, cfgio, codes, unlinked>>

\* Nobody has a subscription; both users hold the price of a month in
\* points.
InitCreate ==
    /\ now = 0
    /\ subs = <<>>
    /\ peers = {}
    /\ ipLock = "free"
    /\ proc = [p \in Procs |-> IdleRec]
    /\ slots = MaxBusy
    /\ prev = NoPrev
    /\ configs = {}
    /\ balance = [u \in Users |-> <<PointsCost>>]
    /\ ledger = CreditRows(balance, 1)
    /\ referrals = [u \in Users |-> 0]
    /\ refCfg = DefaultRefCfg
    /\ tx = [t \in Txs |-> IdleTx]
    /\ rowLock = [points |-> [u \in Users |-> 0], sub |-> <<0, 0>>]
    /\ refRun = <<>>
    /\ conf = <<>>
    /\ confLast = NoConfOp
    /\ rowCap = MaxSubs
    /\ provider = AllOneMonth
    /\ promo = [max_uses |-> 0, limit |-> MaxPerUser, used |-> 0,
                 active |-> TRUE, lock |-> 0]
    /\ usages = [u \in Users |-> 0]
    /\ notes = {}
    /\ notify = IdleNotify
    /\ cfgio = NoCalls
    /\ codes = {}
    /\ unlinked = [u \in Users |-> 0]
    /\ outbox = <<>>
    /\ env = DefaultEnv

\* The handlers work for user 1; the card webhook is one that passes the
\* checks against the API.
NextCreate ==
    \E p \in Procs :
        \/ \E wh \in Webhooks :
               \E api \in ApiResponses(wh.pid) :
                   /\ wh.tg = 1
                   /\ CardVerdict(wh, api) = "verified"
                   /\ CardReceive(p, wh, api)
        \/ CardGate(p)
        \/ \E fetched \in BOOLEAN : CardPick(p, fetched)
        \/ CryptoReceive(p, <<1, 1>>, GenuineReq(<<1, 1>>))
        \/ CryptoGate(p)
        \/ CryptoPick(p)
        \/ Extend(p)
        \/ \E did \in Donations : DonationReceive(p, did)
        \/ PointsReceive(p, 1)
        \/ PointsCharge(p)
        \/ PointsChargeError(p)
        \/ try_give_referral_trial_7d(p, 1)
        \/ admin_add_sub_choose_period(p, 1)
        \/ promo_code_apply(p, 1)
        \/ \E ok \in BOOLEAN : link_promo_usage_to_subscription(p, ok)
        \/ DeactList(p)
        \/ DeactDb(p)
        \/ \E up \in BOOLEAN : DeactWg(p, up)
        \/ AcquireIpLock(p)
        \/ ScanIp(p)
        \/ \E up \in BOOLEAN : AddPeer(p, up)
        \/ InsertSub(p)
        \/ InsertFail(p)
        \/ Return(p)

SpecCreate == InitCreate /\ [][NextCreate]_vars

(* ------------------------------ SpecDeact ----------------------------- *)
\* db.deactivate_subscription_by_id statement by statement, called from the
\* legacy process (POST /admin/subscriptions/<id>/deactivate) and from the
\* bot (/admin_deactivate): two processes, two database connections.

\* The caller invokes the function for row id.
DeactBegin(p, id) ==
    /\ p \in {"api", "bot"}
    /\ ~Busy(p)
    /\ Goto(p, [IdleRec EXCEPT !.kind = "admin_deactivate", !.pc = "d_select",
                               !.target = id, !.tg = subs[id].tg])
    /\ UNCHANGED <<now, subs, peers, ipLock, slots, prev, configs, balance,
                   ledger, referrals, refCfg, tx, rowLock, refRun, conf,
                   confLast, rowCap, provider, promo, usages, notes, notify,
                   outbox, env, cfgio, codes, unlinked>>

\* SELECT * ... WHERE id = %s AND active = TRUE: no row, and the function
\* returns None; otherwise sub = dict(row).
DeactSelectRow(p) ==
    /\ proc[p].pc = "d_select"
    /\ IF subs[proc[p].target].active
       THEN Goto(p, [proc[p] EXCEPT !.pc = "d_update",
                                    !.key = subs[proc[p].target].key])
       ELSE Finish(p, "none")
    /\ UNCHANGED <<now, subs, peers, ipLock, slots, prev, configs, balance,
                   ledger, referrals, refCfg, tx, rowLock, refRun, conf,
                   confLast, rowCap, provider, promo, usages, notes, notify,
                   outbox, env, cfgio, codes, unlinked>>

\* UPDATE ... WHERE id = %s AND active = TRUE and commit: the statement
\* waits for a concurrent update of the row to commit and then sees the row
\* as that update left it.  The row count is not looked at: `sub` is
\* returned.
DeactUpdateRow(p) ==
    /\ proc[p].pc = "d_update"
    /\ subs' = deactivate_subscription_by_id(proc[p].target,
                                             ReasonOf(proc[p].kind))
    /\ Goto(p, [proc[p] EXCEPT !.pc = "d_wg", !.res = "row",
                               !.mutated = subs[proc[p].target].active])
    /\ UNCHANGED <<now, peers, ipLock, slots, prev, configs, balance, ledger,
                   referrals, refCfg, tx, rowLock, refRun, conf, confLast,
                   rowCap, provider, promo, usages, notes, notify, outbox,
                   env, cfgio, codes, unlinked>>

\* if sub: wg.remove_peer(pub_key), a failure is logged and dropped.
DeactRemovePeer(p, up) ==
    /\ proc[p].pc = "d_wg"
    /\ peers' = IF up THEN peers \ {proc[p].key} ELSE peers
    /\ Goto(p, [proc[p] EXCEPT !.pc = "done"])
    /\ UNCHANGED <<now, subs, ipLock, slots, prev, configs, balance, ledger,
                   referrals, refCfg, tx, rowLock, refRun, conf, confLast,
                   rowCap, provider, promo, usages, notes, notify, outbox,
                   env, cfgio, codes, unlinked>>

NextDeact ==
    \E p \in Procs :
        \/ \E id \in Ids : DeactBegin(p, id)
        \/ DeactSelectRow(p)
        \/ DeactUpdateRow(p)
        \/ \E up \in BOOLEAN : DeactRemovePeer(p, up)
        \/ Return(p)

SpecDeact == InitNotify /\ [][NextDeact]_vars

(* ------------------------------ SpecCode ------------------------------ *)
(* create_or_get_referral_code run by two database clients at once. A     *)
(* code is the pair <<referrer, suffix>>: REF<id> is <<id, 0>> and        *)
(* REF<id>_<n> is <<id, n>>.                                              *)

\* The candidate of the attempt: base_code, then base_code with the suffix.
Candidate(u, attempt) == <<u, attempt>>

\* The active codes of the referrer, the rows the first SELECT looks for.
ActiveCodes(u) == {c \in codes : c.owner = u /\ c.active}

\* The INSERT raises IntegrityError: the code is taken (primary key), or
\* the referrer already has an active code (the partial unique index).
IntegrityError(u, attempt) ==
    \/ \E c \in codes : c.code = Candidate(u, attempt)
    \/ ActiveCodes(u) # {}

\* A client calls create_or_get_referral_code for the referrer.
RefCodeBegin(t, u) ==
    /\ tx[t].pc = "idle"
    /\ GotoTx(t, [pc |-> "rc_select", kind |-> "refcode", tg |-> u,
                  attempt |-> 0, res |-> "none", code |-> <<>>])
    /\ UNCHANGED <<now, subs, peers, ipLock, proc, slots, prev, configs,
                   balance, ledger, referrals, refCfg, rowLock, refRun, conf,
                   confLast, rowCap, provider, promo, usages, notes, notify,
                   outbox, env, cfgio, codes, unlinked>>

\* 1) the referrer's active code is returned when there is one; otherwise
\* the call goes on to generate REF<id>.
RefCodeSelect(t) ==
    /\ tx[t].pc = "rc_select"
    /\ IF ActiveCodes(tx[t].tg) # {}
       THEN \E c \in ActiveCodes(tx[t].tg) :
                GotoTx(t, [tx[t] EXCEPT !.pc = "done", !.res = "ok",
                                        !.code = c.code])
       ELSE GotoTx(t, [tx[t] EXCEPT !.pc = "rc_insert"])
    /\ UNCHANGED <<now, subs, peers, ipLock, proc, slots, prev, configs,
                   balance, ledger, referrals, refCfg, rowLock, refRun, conf,
                   confLast, rowCap, provider, promo, usages, notes, notify,
                   outbox, env, cfgio, codes, unlinked>>

\* 2) one pass of the while True loop: the INSERT of the candidate, then the
\* commit; on IntegrityError the rollback, the next suffix and another pass.
RefCodeInsert(t) ==
    /\ tx[t].pc = "rc_insert"
    /\ IF IntegrityError(tx[t].tg, tx[t].attempt)
       THEN /\ tx[t].attempt < MaxAttempts
            /\ GotoTx(t, [tx[t] EXCEPT !.attempt = @ + 1])
            /\ UNCHANGED codes
       ELSE /\ codes' = codes \cup {[code |-> Candidate(tx[t].tg, tx[t].attempt),
                                     owner |-> tx[t].tg, active |-> TRUE]}
            /\ GotoTx(t, [tx[t] EXCEPT !.pc = "done", !.res = "ok",
                                       !.code = Candidate(tx[t].tg, tx[t].attempt)])
    /\ UNCHANGED <<now, subs, peers, ipLock, proc, slots, prev, configs,
                   balance, ledger, referrals, refCfg, rowLock, refRun, conf,
                   confLast, rowCap, provider, promo, usages, notes, notify,
                   outbox, env, cfgio, unlinked>>

NextCode ==
    \/ \E t \in Txs, u \in Users : RefCodeBegin(t, u)
    \/ \E t \in Txs : RefCodeSelect(t)
    \/ \E t \in Txs : RefCodeInsert(t)
    \/ \E t \in Txs : TxReturn(t)

SpecCode == InitPoints /\ [][NextCode]_vars

(* ------------------------------ SpecTrial ----------------------------- *)
(* cmd_start with a deep-link in the bot, next to the card webhook in the  *)
(* webhook process, the expiry sweeper and /admin_deactivate: what the     *)
(* referral trial is given for, and how often.                             *)

\* /start <code> of user u, the code being that of owner (0: no such active
\* code).  db.register_referral_start writes the referrals row; only when it
\* answers ok does the handler call try_give_referral_trial_7d, which gives
\* nothing to a user with a subscription in force or with a row whose
\* last_event_name is referral_free_trial_7d.
cmd_start(p, u, owner) ==
    /\ p = "bot"
    /\ RoomForRow(p)
    /\ LET reg == register_referral_start(u, owner)
           rec == [IdleRec EXCEPT !.kind = "trial", !.tg = u]
       IN  /\ referrals' = IF reg.ok THEN [referrals EXCEPT ![u] = owner]
                           ELSE referrals
           /\ IF ~reg.ok
              THEN Start(p, [rec EXCEPT !.pc = "done", !.res = reg.error])
              ELSE IF \/ get_latest_subscription_for_telegram(u) # 0
                      \/ has_referral_trial_subscription(u)
              THEN Start(p, [rec EXCEPT !.pc = "done", !.res = "skipped"])
              ELSE Start(p, [rec EXCEPT !.pc = "deact_list",
                                        !.exp = now + TrialDays])
    /\ UNCHANGED <<now, subs, peers, ipLock, slots, configs, balance, ledger,
                   refCfg, tx, rowLock, refRun, conf, confLast, rowCap,
                   provider, promo, usages, notes, notify, outbox, env, cfgio,
                   codes, unlinked>>

\* Nobody has a subscription or a referrer.  The webhook process and the bot
\* run side by side.
InitTrial ==
    /\ now = 0
    /\ subs = <<>>
    /\ peers = {}
    /\ ipLock = "free"
    /\ proc = [p \in Procs |-> IdleRec]
    /\ slots = MaxBusy + 1
    /\ prev = NoPrev
    /\ configs = {}
    /\ balance = [u \in Users |-> <<PointsCost>>]
    /\ ledger = CreditRows(balance, 1)
    /\ referrals = [u \in Users |-> 0]
    /\ refCfg = DefaultRefCfg
    /\ tx = [t \in Txs |-> IdleTx]
    /\ rowLock = [points |-> [u \in Users |-> 0], sub |-> <<0, 0>>]
    /\ refRun = <<>>
    /\ conf = <<>>
    /\ confLast = NoConfOp
    /\ rowCap = MaxSubs
    /\ provider = AllOneMonth
    /\ promo = [max_uses |-> 0, limit |-> MaxPerUser, used |-> 0,
                 active |-> TRUE, lock |-> 0]
    /\ usages = [u \in Users |-> 0]
    /\ notes = {}
    /\ notify = IdleNotify
    /\ cfgio = NoCalls
    /\ codes = {}
    /\ unlinked = [u \in Users |-> 0]
    /\ outbox = <<>>
    /\ env = DefaultEnv

\* User 1 follows deep-links and pays by card; the days pass, the sweeper
\* and the admin deactivate.
NextTrial ==
    \/ Tick
    \/ \E p \in {"web", "bot"} :
        \/ \E owner \in {0} \cup Users : cmd_start(p, 1, owner)
        \/ \E wh \in Webhooks :
               \E api \in ApiResponses(wh.pid) :
                   /\ wh.tg = 1
                   /\ CardVerdict(wh, api) = "verified"
                   /\ CardReceive(p, wh, api)
        \/ CardGate(p)
        \/ \E fetched \in BOOLEAN : CardPick(p, fetched)
        \/ Extend(p)
        \/ Sweep(p)
        \/ \E id \in Ids : AdminDeactivate(p, id)
        \/ DeactList(p)
        \/ DeactDb(p)
        \/ \E up \in BOOLEAN : DeactWg(p, up)
        \/ AcquireIpLock(p)
        \/ ScanIp(p)
        \/ \E up \in BOOLEAN : AddPeer(p, up)
        \/ InsertSub(p)
        \/ Return(p)

SpecTrial == InitTrial /\ [][NextTrial]_vars

(* ------------------------------ claims ------------------------------- *)
InForce(i) == ActiveNow(subs[i])

C2_UniqueActiveIp ==
    \A i, j \in Ids :
        i # j /\ InForce(i) /\ InForce(j) => subs[i].ip # subs[j].ip

\* C3: a card payment-success event delivered again, after other transitions
\* touched its row, changes nothing: no second row is ever inserted for it.
C3_EventAppliedOnce ==
    \A i, j \in Ids :
        i # j /\ subs[i].origin.name = "yookassa_payment_succeeded"
            => subs[i].origin # subs[j].origin

Provisions(p) == proc[p].kind \in {"card", "donation"}
Inserted(p) == Provisions(p) /\ proc[p].pc = "done" /\ proc[p].res = "created"

RECURSIVE SumDelta(_, _)
SumDelta(rows, u) ==
    IF rows = <<>> THEN 0
    ELSE (IF Head(rows).tg = u THEN Head(rows).delta ELSE 0)
             + SumDelta(Tail(rows), u)

\* C4: for every user, user_points.balance equals the sum of delta over the
\* user's user_points_transactions rows (no row counts as balance 0).
C4_BalanceIsLedgerSum ==
    \A u \in Users : Bal(u) = SumDelta(ledger, u)

ApiAcceptable(r) ==
    /\ r.api.status = "succeeded"
    /\ r.api.paid = TRUE
    /\ r.api.currency = "RUB"
    /\ r.api.refunded = 0
    /\ r.api.tg = r.tg
    /\ r.api.tariff = r.tariff

RowsOf(tg) == {i \in Ids : subs[i].tg = tg}

\* C6: a card webhook delivered again right after a delivery that created
\* the user's first row (or right after such a repetition), the provider API
\* still confirming the payment, is ignored as already processed: the user
\* still has exactly one row and one peer.
C6_ReplayIgnored ==
    \A p \in Procs :
        /\ proc[p].kind = "card" /\ proc[p].pc = "done"
        /\ ApiAcceptable(proc[p])
        /\ proc[p].solo /\ proc[p].clean
        /\ proc[p].after \in {"created", "already_processed"}
        => /\ proc[p].res = "already_processed"
           /\ ~proc[p].mutated
           /\ Cardinality(RowsOf(proc[p].tg)) = 1
           /\ \A i \in RowsOf(proc[p].tg) :
                  /\ subs[i].ev = EventOf("card", proc[p].id)
                  /\ subs[i].key \in peers
           /\ Cardinality({subs[i].key : i \in RowsOf(proc[p].tg)}
                              \cap peers) = 1

\* The third delivery in a row has been answered.
C6_Witness ==
    \E p \in Procs :
        /\ proc[p].kind = "card" /\ proc[p].pc = "done"
        /\ proc[p].solo /\ proc[p].clean
        /\ proc[p].after = "already_processed"
        /\ proc[p].res = "already_processed"

\* C7: a card handler that is past its checks, or has changed a row or
\* provisioned a peer, holds an API payment that satisfies every condition;
\* a handler whose payment could not be fetched or fails a condition has
\* ended without touching a row or a peer.
C7_VerifiedBeforeChange ==
    \A p \in Procs :
        proc[p].kind = "card"
            => \/ ApiAcceptable(proc[p])
               \/ /\ proc[p].pc = "done"
                  /\ ~proc[p].mutated
                  /\ proc[p].key = 0
                  /\ proc[p].res \in {"cannot_verify", "api_not_succeeded",
                                      "wrong_currency", "payment_refunded",
                                      "metadata_mismatch"}

\* A verified card payment has extended a row.
C7_Witness ==
    \E p \in Procs :
        /\ proc[p].kind = "card" /\ proc[p].pc = "done"
        /\ proc[p].res = "extended"
        /\ ApiAcceptable(proc[p])

\* C8: a create transition whose add_peer failed on the interface probe has
\* left vpn_subscriptions unchanged.
C8_ProbeFailureLeavesDb ==
    \A p \in Procs :
        /\ Provisions(p) /\ proc[p].pc = "done"
        /\ proc[p].res = "wg_add_error"
        => ~proc[p].mutated

\* C9: when a card payment of a user with a referrer has created or extended
\* a row, the referrer has a ledger row ref_level_1 for that payment.
C9_ReferralCredited ==
    \A p \in Procs :
        /\ proc[p].kind = "card" /\ proc[p].pc = "done"
        /\ proc[p].res \in {"created", "extended"}
        /\ referrals[proc[p].tg] # 0
        => \E k \in DOMAIN ledger :
               /\ ledger[k].tg = referrals[proc[p].tg]
               /\ ledger[k].reason = "ref_level_1"
               /\ ledger[k].level = 1
               /\ ledger[k].delta > 0

\* C10: a rewards run credits exactly the referrers at levels 1..min(k,5)
\* of the payer's upline: level i gets round(base * multiplier_i) when the
\* level is configured, active, has multiplier > 0 and the bonus is > 0, and
\* nothing otherwise; nobody beyond the fifth hop and never the payer.
C10_CreditsUplineOnly ==
    \A k \in DOMAIN refRun :
        LET run == refRun[k]
            Mult2(i) == refCfg.levels[i].mult2
            Paid(i) ==
                /\ refCfg.levels[i].present
                /\ refCfg.levels[i].active
                /\ refCfg.levels[i].mult2 > 0
                /\ Round(refCfg.base * refCfg.levels[i].mult2, 2) > 0
        IN  run.skipped = "none" =>
                /\ \A j \in DOMAIN run.awards :
                       /\ run.awards[j].level \in 1..MaxLevels
                       /\ run.awards[j].level <= Len(run.upline)
                       /\ Paid(run.awards[j].level)
                       /\ run.awards[j].referrer
                              = run.upline[run.awards[j].level]
                       /\ run.awards[j].bonus
                              = Round(refCfg.base * Mult2(run.awards[j].level),
                                      2)
                /\ \A i \in 1..Len(run.upline) :
                       Paid(i) => \E j \in DOMAIN run.awards :
                                      run.awards[j].level = i
                /\ \A j \in DOMAIN run.awards :
                       run.awards[j].referrer # run.payer

\* The non-empty lines of the file that add_peer(key) did not write.
RECURSIVE Foreign(_, _)
Foreign(lines, key) ==
    IF lines = <<>> THEN <<>>
    ELSE (IF Head(lines).t # "blank" /\ Head(lines).own # key
          THEN <<Head(lines)>> ELSE <<>>) \o Foreign(Tail(lines), key)

C12_OtherLinesKept ==
    confLast.op = "remove" =>
        Foreign(conf, confLast.key) = Foreign(confLast.before, confLast.key)

\* The user of handler p has an active unexpired card row.
HasActiveCard(p) == \E i \in ActiveIdsOf(proc[p].tg) : IsYooKassa(i)

\* The handler picks an active card row of the user and computes
\* new_expires_at = max(old, now) + tariff days from what it reads; the
\* step that applies the extension updates that row in place with this
\* expiry and last_event_name = the event; no row is inserted, no key or
\* address allocated, no peer added and no config sent.
ExtendsInPlace(p) ==
    /\ proc[p].kind = "card" /\ proc[p].pc = "pick"
           /\ proc'[p].pc = "extend"
       => LET t == proc'[p].target
              old == subs[t].expires
          IN  /\ t \in ActiveIdsOf(proc[p].tg) /\ IsYooKassa(t)
              /\ proc'[p].exp = (IF old > now THEN old ELSE now)
                                    + TARIFF_DAYS(proc[p].tariff)
              /\ UNCHANGED subs
    /\ proc[p].kind = "card" /\ proc[p].pc = "extend"
           /\ proc'[p].pc = "done"
       => LET t == proc[p].target
          IN  /\ subs' = [subs EXCEPT
                             ![t].expires = proc[p].exp,
                             ![t].ev = Ev("yookassa_payment_succeeded",
                                          proc[p].id)]
              /\ proc'[p].res = "extended"
              /\ proc'[p].key = 0 /\ proc'[p].ip = 0
              /\ UNCHANGED <<peers, configs, ipLock, rowCap, provider, promo,
                             usages, notes, notify, outbox, env, cfgio, codes,
                             unlinked>>

\* C13 as stated: a verified card payment with a new id, for a user with an
\* active card row, always goes on to the extension.
C13_NewPaymentExtends ==
    [][\A p \in Procs :
           /\ proc[p].kind = "card" /\ proc[p].pc = "pick"
                  /\ proc'[p].pc # "pick" /\ HasActiveCard(p)
                  => proc'[p].pc = "extend"
           /\ ExtendsInPlace(p)]_vars

\* C13 amended: such a payment goes on to the extension unless the stale
\* payment guard drops it (the row's last event is another card payment
\* that was not created before this one), in which case nothing changes;
\* the extension updates the row in place.
C13_ExtendsUnlessStale ==
    [][\A p \in Procs :
           /\ proc[p].kind = "card" /\ proc[p].pc = "pick"
                  /\ proc'[p].pc # "pick" /\ HasActiveCard(p)
                  => \/ proc'[p].pc = "extend"
                     \/ /\ proc'[p].res = "stale_payment"
                        /\ \E i \in ActiveIdsOf(proc[p].tg) :
                               /\ IsYooKassa(i)
                               /\ subs[i].ev.name = "yookassa_payment_succeeded"
                               /\ subs[i].ev.id # proc[p].id
                               /\ CreatedAt(proc[p].id)
                                      <= CreatedAt(subs[i].ev.id)
                        /\ UNCHANGED <<subs, peers, configs, ipLock, rowCap,
                                       provider, promo, usages, notes, notify,
                                       outbox, env, cfgio, codes, unlinked>>
           /\ ExtendsInPlace(p)]_vars

\* A second payment has extended the row that the first payment created.
C13_Witness ==
    \E p \in Procs :
        /\ proc[p].kind = "card" /\ proc[p].pc = "done"
        /\ proc[p].res = "extended"
        /\ subs[proc[p].target].origin.name = "yookassa_payment_succeeded"
        /\ subs[proc[p].target].origin.id # proc[p].id
        /\ subs[proc[p].target].ev = Ev("yookassa_payment_succeeded",
                                        proc[p].id)

\* C14: two extensions of the same row, of d1 and d2 days, that were in
\* progress at the same time leave expires_at = the original expires_at
\* + d1 + d2.
C14_ExtendsAddUp ==
    \A p, q \in Procs :
        /\ p # q
        /\ proc[p].pc = "done" /\ proc[p].res = "extended"
        /\ proc[q].pc = "done" /\ proc[q].res = "extended"
        /\ proc[p].target = proc[q].target
        /\ proc[p].old <= proc[q].old
        => subs[proc[p].target].expires
               = proc[p].old + TARIFF_DAYS(proc[p].tariff)
                     + TARIFF_DAYS(proc[q].tariff)

\* A refund handler that has returned after working on a row.
RefundDone(p) ==
    /\ proc[p].pc = "done"
    /\ proc[p].kind = "refund"
    /\ proc[p].target # 0

\* C15: a refund that shortens the subscription takes tariff_days *
\* (refund_amount / original_amount) days from expires_at, whenever that is a
\* whole number of days: a quarter of a year paid 270 and refunded 90
\* loses 30 days, refunded 30 it loses 10.
C15_RevertsRefundedShare ==
    \A p \in Procs :
        LET r == proc[p]
            days == TARIFF_DAYS(r.tariff)
            total == TARIFF_AMOUNTS(r.tariff)
        IN  /\ RefundDone(p)
            /\ r.res = "refund_shortened"
            /\ r.amount > 0
            /\ r.amount <= total
            /\ (days * r.amount) % total = 0
            => r.old - subs[r.target].expires = (days * r.amount) \div total

\* The refund gives back the whole amount of the payment.
FullRefund(r) == r.kind = "refund" /\ r.amount = TARIFF_AMOUNTS(r.tariff)

pointsState == <<balance, ledger, subs, peers>>

\* C18: a points payment attempted with a balance below the price is
\* refused as insufficient_points and nothing is changed in the balance,
\* the ledger, the subscription rows or the peers, in
\* pay_subscription_with_points and in the bot's purchase handler alike.
C18_InsufficientPointsNoChange ==
    [][/\ \A t \in Txs :
              /\ tx[t].pc = "select" /\ tx[t].kind = "pay"
              /\ tx'[t] # tx[t]
              /\ Bal(tx[t].tg) < PointsCost
              => /\ tx'[t].pc = "done"
                 /\ tx'[t].res = "insufficient_points"
                 /\ UNCHANGED pointsState
       /\ \A p \in Procs :
              /\ proc[p].pc = "idle" /\ proc'[p].kind = "points"
              /\ Bal(proc'[p].tg) < PointsCost
              => /\ proc'[p].pc = "done"
                 /\ proc'[p].res = "insufficient_points"
                 /\ UNCHANGED pointsState
       /\ \A p \in Procs :
              /\ proc[p].kind = "points"
              /\ proc[p].res = "insufficient_points"
              => ~proc'[p].mutated /\ proc'[p].pc \in {"done", "idle"}]_vars

\* Both refusals have happened: the transaction and the bot's handler have
\* returned insufficient_points for a user who holds less than the price.
C18_Witness ==
    \E t \in Txs, p \in Procs :
        /\ tx[t].pc = "done" /\ tx[t].res = "insufficient_points"
        /\ proc[p].pc = "done" /\ proc[p].res = "insufficient_points"
        /\ Bal(tx[t].tg) < PointsCost
        /\ Bal(proc[p].tg) < PointsCost
        /\ Len(subs) = 1

\* /admin_activate has come to its end for a row it switched on.
Reactivated(p) ==
    /\ proc[p].pc = "done"
    /\ proc[p].kind = "admin_activate"
    /\ proc[p].res \in {"activated", "wg_add_error"}

FreeHosts ==
    {h \in FirstClientHost..LastClientHost :
        ~\E i \in Ids :
            subs[i].ip = h /\ subs[i].active /\ subs[i].expires > now}

C21_ReferrerWrittenOnce ==
    [][\A u \in Users :
           /\ referrals[u] # 0 => referrals'[u] = referrals[u]
           /\ referrals'[u] # referrals[u] => referrals'[u] \in Users \ {u}
           /\ referrals[u] # 0
              => \A owner \in Users \cup {0} :
                     ~register_referral_start(u, owner).ok]_vars

\* A user has a referrer, and a retry of /start with a code is answered
\* already_has_referrer.
C21_Witness ==
    \E u \in Users, owner \in Users :
        /\ referrals[u] # 0
        /\ register_referral_start(u, owner).error = "already_has_referrer"

\* C22: after any sequence of register_referral_start calls the referrals
\* graph has no cycle: following referred -> referrer rows from a user never
\* leads back to that user, so nobody is in their own upline chain.
C22_ReferralsAcyclic ==
    \A u \in Users :
        LET chain == get_referral_upline_chain(u, NumUsers)
        IN  \A i \in DOMAIN chain : chain[i] # u

\* C23: for every subscription and every reminder kind the reminder is
\* delivered to the user exactly once, also when the worker stops or fails
\* between sending the message and recording the marker; here its safety
\* half: no reminder of a kind is delivered twice for a subscription.
C23_RemindedOnce ==
    \A i, j \in DOMAIN outbox : outbox[i] = outbox[j] => i = j

\* C24: every subscription that is active with expires_at <= now is
\* eventually deactivated and its peer is eventually removed from the
\* gateway by the expiry sweeper, a failed iteration being retried by a
\* later one.
C24_ExpiredEventuallySwept ==
    \A i \in 1..NumUsers :
        (i \in Ids /\ subs[i].active /\ subs[i].expires <= now)
            ~> (i \in Ids /\ ~subs[i].active /\ subs[i].key \notin peers)

\* C25: on the points path, when the user has no active subscription but
\* has an earlier row with keys and an address, the new row takes the key
\* pair and the address of the most recent of these rows, that peer is in
\* the interface again, and no config is sent.
C25_RevivesLatestKeys ==
    [][\A p \in Procs :
           LET r == proc[p]
               mine == {i \in Ids : subs[i].tg = r.tg}
               last == CHOOSE i \in mine : \A j \in mine : j <= i
           IN  /\ r.kind = "points"
               /\ r.pc = "insert"
               /\ proc'[p].pc = "charge"
               /\ r.target = 0
               /\ mine # {}
               => /\ subs'[Len(subs')].key = subs[last].key
                  /\ subs'[Len(subs')].ip = subs[last].ip
                  /\ subs[last].key \in peers'
                  /\ ~proc'[p].send]_vars

\* C26: when a card or crypto create transition fails because the gateway
\* is down, the address pool is exhausted or the insert fails, the webhook
\* handler answers with a 5xx status, so that the provider delivers the
\* event again.
C26_CreateFailureAnswers5xx ==
    \A p \in Procs :
        /\ proc[p].kind \in {"card", "crypto"}
        /\ proc[p].pc = "done"
        /\ proc[p].res \in {"wg_add_error", "wg_gen_error", "db_error"}
        => HttpStatus(proc[p].res) \in 500..599

\* A step of the crypto handler that changes the subscriptions or the
\* gateway.
CryptoChanges(p) ==
    /\ proc[p].kind = "crypto"
    /\ proc'[p].pc # proc[p].pc
    /\ subs' # subs \/ peers' # peers

\* One of the addresses the handler looks at is the trusted one.
FromTrusted(req) ==
    TrustedIp \in {req.realip, req.remote}
                      \cup (IF req.fwd = <<>> THEN {} ELSE {Head(req.fwd)})

\* C27 as stated: a crypto webhook changes state only if its source address
\* is the trusted one (or the IP check is switched off) and the sign field
\* of its body is the hash of the body with the payment key.
C27_ChangesOnlyIfSigned ==
    [][\A p \in Procs :
           CryptoChanges(p)
               => /\ env.noIpCheck \/ FromTrusted(proc[p].req)
                  /\ env.key # 0
                  /\ proc[p].req.sign = Sign(proc[p].id, env.key)]_vars

\* C27, amended: a crypto webhook changes state only if the trusted address
\* is its X-Real-IP header, the first address of its X-Forwarded-For header
\* or its peer address (or the IP check is switched off), and its sign
\* field is the hash of the body with the payment key, or no payment key
\* is configured and the signature check is switched off.
C27_ChangesOnlyIfVerified ==
    [][\A p \in Procs :
           CryptoChanges(p)
               => /\ env.noIpCheck \/ FromTrusted(proc[p].req)
                  /\ \/ /\ env.key # 0
                        /\ proc[p].req.sign = Sign(proc[p].id, env.key)
                     \/ env.key = 0 /\ env.noSigCheck]_vars

\* With a payment key configured and the IP check on, a request whose sign
\* field is the hash of its body with that key has made a row.
C27_Witness ==
    \E p \in Procs :
        /\ proc[p].kind = "crypto"
        /\ proc[p].res = "created"
        /\ env.key # 0
        /\ ~env.noIpCheck
        /\ FromTrusted(proc[p].req)
        /\ proc[p].req.sign = Sign(proc[p].id, env.key)
        /\ \E i \in Ids : subs[i].ev = EventOf("crypto", proc[p].id)

\* C28: a handler of a provider event (card success and refund, crypto
\* paid, legacy donation) that has changed the database has asked the
\* idempotency gate before, about an event name that carries the provider's
\* payment identifier, and a handler the gate told "processed" changes
\* nothing.
C28_GateBeforeMutation ==
    \A p \in Procs :
        LET r == proc[p]
        IN  r.kind \in {"card", "refund", "crypto", "donation"}
            => /\ r.mutated => r.gate.id = r.id /\ r.gate.id # NoId
               /\ r.res \in {"already_processed", "refund_already_processed"}
                  => ~r.mutated

\* C29: when two handlers process the same payment-success event at the
\* same time, at most one of them applies a transition: no two rows carry
\* the event name of one payment, and two handlers of one payment never
\* extend a row one after the other, the second on top of the first.
C29_OneTransitionPerPayment ==
    /\ \A i, j \in Ids :
           /\ subs[i].ev = subs[j].ev
           /\ subs[i].ev.name = "yookassa_payment_succeeded"
           => i = j
    /\ \A p, q \in Procs :
           /\ p # q
           /\ proc[p].kind = "card"
           /\ proc[q].kind = "card"
           /\ proc[p].id = proc[q].id
           /\ proc[p].res = "extended"
           /\ proc[q].res = "extended"
           => proc[p].exp = proc[q].exp

\* The handlers that insert a subscription row for a new peer.
Creates(p) ==
    proc[p].kind \in {"card", "crypto", "donation", "points", "admin_add",
                      "trial", "promo"}

\* Handler p reaches its INSERT in this step.
ReachesInsert(p) == proc[p].pc # "insert" /\ proc'[p].pc = "insert"

\* Handler p's INSERT commits in this step.
CommitsInsert(p) ==
    /\ proc[p].pc = "insert"
    /\ proc'[p].pc # "insert"
    /\ Len(subs') = Len(subs) + 1

\* C30: in every create transition (card, crypto, admin manual, promo,
\* points, referral trial, legacy) the peer is added to the interface before
\* the row is inserted, no row is inserted after a failed peer addition, and
\* the config is sent only once the row is committed.  Step by step: a
\* handler reaches its INSERT only by an add_peer that put its key into the
\* interface; a row appears only by the INSERT of a handler that got there,
\* and carries that handler's key; a handler whose add_peer left its key out
\* of the interface ends there, and one whose add_peer or INSERT failed ends
\* with the table and the sent configs as they were; and every config newly
\* sent is that of a committed row.
C30_PeerThenRowThenConfig ==
    [][/\ \A p \in Procs :
              /\ ReachesInsert(p)
                     => /\ Creates(p)
                        /\ proc[p].pc = "addpeer"
                        /\ proc[p].key \notin peers \/ proc[p].target # 0
                        /\ proc[p].key \in peers'
              /\ CommitsInsert(p)
                     => /\ Creates(p)
                        /\ subs'[Len(subs')].key = proc[p].key
                        /\ configs' \subseteq configs \cup {proc[p].key}
              /\ (/\ proc[p].pc \in {"addpeer", "insert"}
                  /\ proc'[p].pc = "done"
                  /\ proc'[p].res \in {"wg_add_error", "db_error"})
                     => /\ subs' = subs
                        /\ configs' = configs
              /\ (/\ proc[p].pc = "addpeer"
                  /\ proc'[p].pc # "addpeer"
                  /\ proc[p].key \notin peers')
                     => /\ proc'[p].pc = "done"
                        /\ proc'[p].res = "wg_add_error"
       /\ Len(subs') > Len(subs) => \E p \in Procs : CommitsInsert(p)
       /\ \A k \in configs' \ configs :
              \E i \in DOMAIN subs' : subs'[i].key = k]_vars

\* The referral trial of user 1 has been created: the handler is about to
\* return, its row is in the table, its peer in the interface and its config
\* with the user.
C30_Witness ==
    \E p \in Procs :
        /\ proc[p].kind = "trial"
        /\ proc[p].pc = "done"
        /\ proc[p].res = "created"
        /\ proc[p].target \in Ids
        /\ subs[proc[p].target].key = proc[p].key
        /\ subs[proc[p].target].ev = EvPlain("referral_free_trial_7d")
        /\ proc[p].key \in peers
        /\ proc[p].key \in configs

\* C31: a card payment that would extend a row whose last_event_name names
\* another card payment goes on to the extension only if it was created
\* strictly after that payment; otherwise (older, equal, or not comparable)
\* it is dropped and nothing changes.
C31_ExtendsOnlyIfNewer ==
    [][\A p \in Procs :
           LET yk == FirstYooKassa(
                         get_active_subscriptions_for_telegram(proc[p].tg))
           IN  /\ proc[p].kind = "card"
               /\ proc[p].pc = "pick"
               /\ proc'[p].pc # "pick"
               /\ yk # 0
               /\ subs[yk].ev.name = "yookassa_payment_succeeded"
               /\ subs[yk].ev.id # NoId
               /\ subs[yk].ev.id # proc[p].id
               => IF CreatedAt(proc[p].id) > CreatedAt(subs[yk].ev.id)
                  THEN proc'[p].pc = "extend"
                  ELSE /\ proc'[p].pc = "done"
                       /\ proc'[p].res = "stale_payment"
                       /\ subs' = subs]_vars

\* C32: a verified card or crypto payment for a user who has any active
\* unexpired row, also one of another channel, goes on to the extension of
\* an existing row; it goes on to deactivate the rows and insert a new one
\* only when the user has no active row.  (A payment dropped by the stale
\* guard is not counted.)
C32_ExtendsAnyActive ==
    [][\A p \in Procs :
           /\ proc[p].kind \in {"card", "crypto"}
           /\ proc[p].pc = "pick"
           /\ proc'[p].pc # "pick"
           /\ proc'[p].res # "stale_payment"
           => (ActiveIdsOf(proc[p].tg) # {} <=> proc'[p].pc = "extend")]_vars

\* C33: deactivate_subscription_by_id returns the row exactly to the caller
\* whose UPDATE changed it: of the calls in progress on one row at most one
\* has the row in hand (and so goes on to remove the peer), and a call that
\* has it is the one that switched the row off.
C33_RowReturnedToOneCaller ==
    /\ \A p \in Procs :
           proc[p].kind = "admin_deactivate" /\ proc[p].res = "row"
               => proc[p].mutated
    /\ \A p, q \in Procs :
           /\ proc[p].kind = "admin_deactivate" /\ proc[p].res = "row"
           /\ proc[q].kind = "admin_deactivate" /\ proc[q].res = "row"
           /\ proc[p].target = proc[q].target
           => p = q

\* Every managed block of the file is whole: comment, [Peer], PublicKey and
\* AllowedIPs of one key.
WholeBlocks(lines) ==
    \A i \in DOMAIN lines :
        lines[i].t = "comment"
            => /\ i + 3 <= Len(lines)
               /\ lines[i + 1].t = "peer"
               /\ lines[i + 2].t = "pub"
               /\ lines[i + 3].t = "ips"
               /\ lines[i + 2].k = lines[i].own
               /\ lines[i + 3].k = lines[i].own

\* The keys that have a managed block in the file.
KeysInFile(lines) ==
    {lines[i].k : i \in {j \in DOMAIN lines : lines[j].t = "pub"}}

\* C34: concurrent add_peer and remove_peer calls lose no update of the
\* config file and no reader sees a partial file.  The file changes only in
\* the os.replace of a call, and there it becomes what the call makes of the
\* file as it is at that moment (not of an older copy): an append keeps
\* every line and adds the block of its key, a removal leaves the blocks of
\* all other keys and none of its own; and the file always consists of whole
\* blocks.
C34_NoLostConfigUpdate ==
    [][/\ \A p \in Procs :
              /\ cfgio.call[p].pc = "replace"
              /\ cfgio'.call[p].pc # "replace"
              => LET c == cfgio.call[p]
                 IN  /\ conf' = NewLines(c.op, c.key, conf)
                     /\ c.op = "add"
                            => /\ SubSeq(conf', 1, Len(conf)) = conf
                               /\ KeysInFile(conf')
                                      = KeysInFile(conf) \cup {c.key}
                     /\ c.op = "remove"
                            => KeysInFile(conf') = KeysInFile(conf) \ {c.key}
       /\ conf' # conf
              => \E p \in Procs : /\ cfgio.call[p].pc = "replace"
                                  /\ cfgio'.call[p].pc # "replace"
       /\ WholeBlocks(conf')]_vars

\* One process has just replaced the file with the block of its key added
\* and still holds the lock, while the other waits for the lock to remove a
\* block.
C34_Witness ==
    \E p, q \in Procs :
        /\ p # q
        /\ cfgio.lock = p
        /\ cfgio.call[p].pc = "unlock"
        /\ cfgio.call[p].op = "add"
        /\ cfgio.call[p].key \in KeysInFile(conf)
        /\ cfgio.call[q].pc = "flock"
        /\ cfgio.call[q].op = "remove"
        /\ cfgio.call[q].key \in KeysInFile(conf)

\* C35: every provisioning attempt that took the IP-allocation advisory
\* lock gives it back, whichever step fails afterwards: the lock is held
\* only by a handler that is between the scan for a free address and its
\* INSERT, never by one that has returned, so a later allocation is not
\* blocked forever.
C35_LockAlwaysReleased ==
    /\ ipLock # "leaked"
    /\ \A p \in Procs :
           ipLock = p => proc[p].pc \in {"scan", "addpeer", "insert"}

\* C36: whenever no handler is in progress, every row that is active and
\* unexpired has its public key in the interface.
C36_ActiveRowHasPeer ==
    (\A p \in Procs : proc[p].pc = "idle")
        => \A i \in Ids : InForce(i) => subs[i].key \in peers

\* C37: create_or_get_referral_code does not retry on the one-active-code-
\* per-referrer conflict: a pass of the loop whose INSERT is rejected while
\* the referrer has an active code (another call inserted REF<id> after this
\* call's lookup) ends the call, returning that active code.
C37_NoRetryOnActiveCodeConflict ==
    [][\A t \in Txs :
          (/\ tx[t].pc = "rc_insert"
           /\ tx'[t] # tx[t]
           /\ ActiveCodes(tx[t].tg) # {})
          => /\ tx'[t].pc = "done"
             /\ \E c \in ActiveCodes(tx[t].tg) : tx'[t].code = c.code]_vars

\* C38: once the promo handler of a user without an active subscription is
\* over, every use it consumed (usage row inserted, used_count incremented)
\* stands against a new subscription row made from the code and linked to
\* the usage row: no usage row of the user is left with subscription_id
\* NULL, and the user has as many promo subscriptions as consumed uses.
C38_ConsumedUseIsLinked ==
    \A u \in Users :
        (\A p \in Procs : ~(Busy(p) /\ proc[p].kind = "promo"
                                    /\ proc[p].tg = u))
        => /\ unlinked[u] = 0
           /\ usages[u] <= Cardinality(
                  {i \in Ids : /\ subs[i].tg = u
                               /\ subs[i].origin
                                      = EvPlain("promo_new_subscription")})

\* C39: in the bot's points purchase a "Points balance" row exists after the
\* handler if and only if the price was debited with a matching negative
\* ledger row: outside the handler's window between its INSERT and its
\* debit, every user has as many "Points balance" rows as pay_tariff_points
\* debits of the price; no balance is negative; and no handler ends with a
\* failed debit.
C39_PointsRowIffDebit ==
    /\ \A u \in Users :
           /\ Bal(u) >= 0
           /\ (\A p \in Procs : ~(proc[p].kind = "points" /\ proc[p].tg = u
                                     /\ proc[p].pc = "charge"))
              => Cardinality({i \in Ids : /\ subs[i].tg = u
                                          /\ subs[i].channel = "Points balance"})
                   = Cardinality({k \in 1..Len(ledger) :
                                     /\ ledger[k].tg = u
                                     /\ ledger[k].delta = -PointsCost
                                     /\ ledger[k].reason = "pay_tariff_points"})
    /\ \A p \in Procs :
           ~(proc[p].pc = "done" /\ proc[p].res = "charge_failed")

\* The rows of user u that were created as the referral trial.
TrialRows(u) ==
    {i \in Ids : subs[i].tg = u /\ subs[i].origin = EventOf("trial", NoId)}

\* C40: a user is granted the 7-day referral trial at most once over any
\* sequence of /start deep-links, expiries and deactivations, and the trial
\* is never granted to a user who has an active subscription: no user has
\* two rows created as the trial, and when the trial's row is inserted the
\* user has no active unexpired row.
C40_TrialOnceAndOnlyWithoutSubscription ==
    [][\A p \in Procs :
           (/\ proc[p].kind = "trial"
            /\ proc[p].pc = "insert"
            /\ proc'[p].pc # "insert"
            /\ Len(subs') = Len(subs) + 1)
           => /\ ActiveIdsOf(proc[p].tg) = {}
              /\ TrialRows(proc[p].tg) = {}]_vars
====
